---------------------------- MODULE Spec2Model ----------------------------
(***************************************************************************)
(* Lookup / cache / reconciliation core of the Company Research Tool.      *)
(*                                                                         *)
(* The store is the two SQL tables of models.py (company, employee).       *)
(* Strings are sequences of one-character strings, so that strip(),        *)
(* lower(), split()/join() and casefold() are computed character by        *)
(* character as Python and SQL compute them.  Python's None is the value   *)
(* NULL, a JSON number in a place where the code expects a string is       *)
(* NUMBER.                                                                 *)
(***************************************************************************)
EXTENDS Integers, Sequences, FiniteSets, TLC

VARIABLES
    companies,   \* table company : sequence of rows, row i has id i
    employees,   \* table employee: sequence of rows, row i has id i
    hasClient,   \* app.gemini_client / backend._HAS_GEMINI: a client is configured
    ops,         \* number of entry-point calls made so far
    last,        \* what the last entry-point call was given and what it did
    cachedKeys,  \* the normalized queries whose handling ended with a complete company
    pending,     \* the upsert calls in flight: what each has read so far
    text,        \* the string handed to a pure function (normalize_name, the parser)
    value,       \* what the pure function returned for it
    request      \* the entry point that is running: where it is, what it holds open

vars ==
    <<companies, employees, hasClient, ops, last, cachedKeys, pending, text, value,
      request>>

\* the variables of the pure functions
pure == <<text, value>>

-----------------------------------------------------------------------------
(* Bounds of the model *)

\* entry-point calls per behaviour
MaxOps == 3

\* parsed employee entries per enrichment response
MaxBatch == 2

\* characters of a name handed to normalize_name
MaxName == 4

\* characters of the commentary before and after a JSON object in a response
MaxNote == 2

\* fields of a line handed to parse_employee_list_from_text
MaxFields == 5

-----------------------------------------------------------------------------
(* Values *)

NULL == <<"null">>
NUMBER == <<"number">>
EMPTY == <<>>

\* the literal "Not found" (app.py:396, app.py:410)
NotFound == <<"N", "o", "t", " ", "f", "o", "u", "n", "d">>

\* the literal "Unknown" (app.py:274)
UnknownName == <<"U", "n", "k", "n", "o", "w", "n">>

\* Python truthiness of an optional string: None and "" are falsy
Truthy(v) == v # NULL /\ v # EMPTY

\* `x or y`
OrElse(x, y) == IF Truthy(x) THEN x ELSE y

-----------------------------------------------------------------------------
(* Strings *)

IsSpace(c) == c \in {" ", "\n", "\t"}

LowerChar(c) ==
    CASE c = "A" -> "a"
      [] c = "B" -> "b"
      [] c = "C" -> "c"
      [] c = "D" -> "d"
      [] c = "J" -> "j"
      [] c = "K" -> "k"
      [] OTHER -> c

\* str.lower(), SQL lower()
Lower(s) == [i \in 1..Len(s) |-> LowerChar(s[i])]

\* str.casefold(); on the ASCII letters of the model it is lower()
CaseFold(s) == [i \in 1..Len(s) |-> LowerChar(s[i])]

RECURSIVE LStrip(_)
LStrip(s) ==
    IF s = <<>> THEN <<>>
    ELSE IF IsSpace(Head(s)) THEN LStrip(Tail(s)) ELSE s

RECURSIVE RStrip(_)
RStrip(s) ==
    IF s = <<>> THEN <<>>
    ELSE IF IsSpace(s[Len(s)]) THEN RStrip(SubSeq(s, 1, Len(s) - 1)) ELSE s

\* str.strip()
Strip(s) == RStrip(LStrip(s))

\* " ".join(s.split()): s.split() drops leading/trailing whitespace and cuts
\* at every whitespace run; joining puts one space between the words.
RECURSIVE JoinSplit(_, _)
JoinSplit(s, inWord) ==
    IF s = <<>> THEN <<>>
    ELSE IF IsSpace(Head(s))
         THEN IF inWord /\ LStrip(s) # <<>>
              THEN <<" ">> \o JoinSplit(LStrip(s), FALSE)
              ELSE JoinSplit(LStrip(s), FALSE)
         ELSE <<Head(s)>> \o JoinSplit(Tail(s), TRUE)

\* a key that is trimmed and case-folded, with its whitespace runs kept
normalize_name_uncollapsed(s) ==
    IF Truthy(s) THEN CaseFold(Strip(s)) ELSE EMPTY

\* normalize_name
normalize_name(s) ==
    IF Truthy(s) THEN CaseFold(Strip(JoinSplit(s, FALSE))) ELSE EMPTY

\* raw_user_input.strip().lower()
StripLower(s) == Lower(Strip(s))

\* raw_user_input.strip().lower() if raw_user_input else None
NormalizedUserInput(q) == IF Truthy(q) THEN StripLower(q) ELSE NULL

IsDigit(c) == c \in {"0", "1", "2", "3", "4", "5", "6", "7", "8", "9"}

DigitVal(c) ==
    CASE c = "0" -> 0 [] c = "1" -> 1 [] c = "2" -> 2 [] c = "3" -> 3
      [] c = "4" -> 4 [] c = "5" -> 5 [] c = "6" -> 6 [] c = "7" -> 7
      [] c = "8" -> 8 [] OTHER -> 9

RECURSIVE DecimalVal(_)
DecimalVal(s) ==
    IF s = <<>> THEN 0
    ELSE 10 * DecimalVal(SubSeq(s, 1, Len(s) - 1)) + DigitVal(s[Len(s)])

\* stored employee_size = None
NoSize == -1

\* int(value) succeeds: surrounding whitespace is allowed, digits only
IntParseable(v) ==
    /\ Truthy(v)
    /\ Strip(v) # <<>>
    /\ \A i \in 1..Len(Strip(v)) : IsDigit(Strip(v)[i])

\* _parse_employee_size
parse_employee_size(v) ==
    IF v = NULL \/ v = EMPTY THEN NoSize
    ELSE IF IntParseable(v) THEN DecimalVal(Strip(v)) ELSE NoSize

-----------------------------------------------------------------------------
(* The store: models.py *)

\* a row of table company (its id is its position in `companies`)
Company(name, key, industry, size, domain, email) ==
    [name |-> name, name_normalized |-> key, industry |-> industry,
     employee_size |-> size, domain |-> domain, email |-> email]

\* a row of table employee (its id is its position in `employees`)
Employee(full_name, title, department, seniority, profile_url, email, cid) ==
    [full_name |-> full_name, title |-> title, department |-> department,
     seniority |-> seniority, profile_url |-> profile_url, email |-> email,
     company_id |-> cid]

\* the optional fields of an employee that a merge may fill
EmpFields == {"title", "department", "seniority", "profile_url", "email"}

\* the soft fields of a company
SoftFields == {"industry", "domain", "email"}

\* no company / no row: the result of .first() on an empty result set
NoId == 0

\* select(...).first(): the matching row stored first, or none
First(ids) == IF ids = {} THEN NoId ELSE CHOOSE i \in ids : \A j \in ids : i <= j

\* select(Company).where(Company.name_normalized == key).first()
CompanyByKey(cs, key) ==
    First({i \in 1..Len(cs) : cs[i].name_normalized = key})

\* select(Company).where(Company.name == name).first()
CompanyByName(cs, name) ==
    First({i \in 1..Len(cs) : cs[i].name = name})

\* select(Company).where(func.lower(Company.name) == lowered).first()
CompanyByLowerName(cs, lowered) ==
    First({i \in 1..Len(cs) : Lower(cs[i].name) = lowered})

\* select(Employee).where(company_id == cid & lower(full_name) == lowered).first()
EmployeeByLowerName(es, cid, lowered) ==
    First({i \in 1..Len(es) :
             es[i].company_id = cid /\ Lower(es[i].full_name) = lowered})

\* select(Employee.id).where(Employee.company_id == cid): the rows of a company
EmployeesOf(es, cid) == {i \in 1..Len(es) : es[i].company_id = cid}

-----------------------------------------------------------------------------
(* app.py: the Lookup Resolver *)

\* get_company_by_name, as written: stage 1 compares the stored key with
\* raw_user_input.strip().lower()
get_company_by_name(cs, q) ==
    IF ~Truthy(q) THEN NoId
    ELSE IF CompanyByKey(cs, StripLower(q)) # NoId
         THEN CompanyByKey(cs, StripLower(q))
    ELSE IF CompanyByName(cs, q) # NoId
         THEN CompanyByName(cs, q)
    ELSE CompanyByLowerName(cs, StripLower(q))

-----------------------------------------------------------------------------
(* app.py: the Reconciliation / Upsert Engine *)

\* company_data.get("name") or raw_user_input or "Unknown"
CompanyName(cd, q) == OrElse(cd.name, OrElse(q, UnknownName))

\* _find_existing_company
find_existing_company(cs, nq, cd, company_name) ==
    IF Truthy(nq) /\ CompanyByKey(cs, nq) # NoId
    THEN CompanyByKey(cs, nq)
    ELSE IF Truthy(cd.name) /\ CompanyByName(cs, cd.name) # NoId
         THEN CompanyByName(cs, cd.name)
    ELSE CompanyByLowerName(cs, Lower(company_name))

\* a soft field that is only filled while it is empty
UpdatedSoftFillOnly(old, new) == IF Truthy(new) /\ ~Truthy(old) THEN new ELSE old

\* the value _update_company leaves in a soft field
UpdatedSoft(old, new) == IF Truthy(new) THEN new ELSE old

\* the value _update_company leaves in employee_size
UpdatedSize(old, new) ==
    IF new # NULL /\ new # EMPTY THEN parse_employee_size(new) ELSE old

\* the value _update_company leaves in name_normalized
UpdatedKey(old, nq) == IF Truthy(nq) THEN nq ELSE old

\* _update_company: the row as committed
update_company(c, cd, nq) ==
    Company(c.name,
            UpdatedKey(c.name_normalized, nq),
            UpdatedSoft(c.industry, cd.industry),
            UpdatedSize(c.employee_size, cd.employee_size),
            UpdatedSoft(c.domain, cd.domain),
            UpdatedSoft(c.email, cd.email))

\* _create_company: the row handed to the INSERT; name_normalized stays
\* unset (None) when normalized_input is falsy
create_company(company_name, cd, nq) ==
    Company(company_name,
            IF Truthy(nq) THEN nq ELSE NULL,
            cd.industry,
            parse_employee_size(cd.employee_size),
            cd.domain,
            cd.email)

\* the INSERT of _create_company is accepted: name_normalized is NOT NULL
\* and UNIQUE (models.py:8)
InsertAccepted(cs, row) ==
    /\ row.name_normalized # NULL
    /\ \A i \in 1..Len(cs) : cs[i].name_normalized # row.name_normalized

\* a fill that overwrites a confirmed value
FilledFieldOverwriting(old, new) == IF Truthy(new) THEN new ELSE old

\* one field of _update_employee: filled only over a placeholder
FilledField(old, new) ==
    IF Truthy(new) /\ old \in {NULL, NotFound} THEN new ELSE old

\* an update that also takes the parsed spelling of the name
update_employee_renaming(e, d) ==
    Employee(d.full_name,
             FilledField(e.title, d.title),
             FilledField(e.department, d.department),
             FilledField(e.seniority, d.seniority),
             FilledField(e.profile_url, d.profile_url),
             FilledField(e.email, d.email),
             e.company_id)

\* _update_employee
update_employee(e, d) ==
    Employee(e.full_name,
             FilledField(e.title, d.title),
             FilledField(e.department, d.department),
             FilledField(e.seniority, d.seniority),
             FilledField(e.profile_url, d.profile_url),
             FilledField(e.email, d.email),
             e.company_id)

\* the Employee(...) built for a person seen for the first time
new_employee(full_name, d, cid) ==
    Employee(full_name,
             OrElse(d.title, NotFound),
             OrElse(d.department, NotFound),
             OrElse(d.seniority, NotFound),
             OrElse(d.profile_url, NotFound),
             d.email,
             cid)

\* (emp_data.get("full_name") or "").strip() raises on a non-string
NameRaises(d) == d.full_name = NUMBER

\* _upsert_employees, the loop from entry i on: es are the rows the session
\* sees (stored and pending), seen the set of keys of this batch.  The result
\* is [ok, rows]: ok is FALSE when an entry raised, and then nothing of the
\* loop is committed.
RECURSIVE upsert_employees_from(_, _, _, _, _)

\* the loop body without the test `key in seen`
upsert_employees_entry_unseen(es, cid, list, i, seen, d, full_name, key, found) ==
    IF full_name = EMPTY
    THEN upsert_employees_from(es, cid, list, i + 1, seen)
    ELSE IF found # NoId
         THEN upsert_employees_from(
                  [es EXCEPT ![found] = update_employee(es[found], d)],
                  cid, list, i + 1, seen \cup {key})
         ELSE upsert_employees_from(
                  Append(es, new_employee(full_name, d, cid)),
                  cid, list, i + 1, seen \cup {key})

\* the loop body for entry d = list[i] once full_name, key and the row
\* found for it (existing_emp) are known (app.py:379-403)
upsert_employees_entry(es, cid, list, i, seen, d, full_name, key, found) ==
    IF full_name = EMPTY \/ key \in seen
    THEN upsert_employees_from(es, cid, list, i + 1, seen)
    ELSE IF found # NoId
         THEN upsert_employees_from(
                  [es EXCEPT ![found] = update_employee(es[found], d)],
                  cid, list, i + 1, seen \cup {key})
         ELSE upsert_employees_from(
                  Append(es, new_employee(full_name, d, cid)),
                  cid, list, i + 1, seen \cup {key})

\* the loop body for entry list[i] with its stripped full_name (app.py:374-388)
upsert_employees_named(es, cid, list, i, seen, full_name) ==
    upsert_employees_entry(es, cid, list, i, seen, list[i], full_name,
                           normalize_name(full_name),
                           EmployeeByLowerName(es, cid, Lower(full_name)))

upsert_employees_from(es, cid, list, i, seen) ==
    IF i > Len(list) THEN [ok |-> TRUE, rows |-> es]
    ELSE IF NameRaises(list[i]) THEN [ok |-> FALSE, rows |-> es]
    ELSE upsert_employees_named(es, cid, list, i, seen,
                                Strip(OrElse(list[i].full_name, EMPTY)))

\* _upsert_employees
upsert_employees(es, cid, list) == upsert_employees_from(es, cid, list, 1, {})

\* What upsert_company_and_employees leaves and returns, given the company
\* table cs1 after _update_company / _create_company, the id cid of that
\* company, whether the INSERT of a new company is accepted, and the result
\* `merged` of _upsert_employees.  outcome is "ok" (a company is returned),
\* "create_failed" (the INSERT of the company raised: nothing is written) or
\* "employees_failed" (the employee loop raised after the company commit:
\* the session is closed without a commit of the loop's rows).
upsert_outcome(cs, es, existing, cs1, cid, accepted, merged) ==
    IF existing = NoId /\ ~accepted
    THEN [companies |-> cs, employees |-> es, outcome |-> "create_failed",
          target |-> NoId, created |-> FALSE]
    ELSE IF ~merged.ok
    THEN [companies |-> cs1, employees |-> es, outcome |-> "employees_failed",
          target |-> cid, created |-> existing = NoId]
    ELSE [companies |-> cs1, employees |-> merged.rows, outcome |-> "ok",
          target |-> cid, created |-> existing = NoId]

\* upsert_company_and_employees once the merge target `existing` is found
\* (app.py:283-294)
upsert_into(cs, es, data, nq, company_name, existing) ==
    IF existing # NoId
    THEN upsert_outcome(cs, es, existing,
             [cs EXCEPT ![existing] = update_company(cs[existing], data.company, nq)],
             existing, TRUE,
             upsert_employees(es, existing, data.employees))
    ELSE upsert_outcome(cs, es, existing,
             Append(cs, create_company(company_name, data.company, nq)),
             Len(cs) + 1,
             InsertAccepted(cs, create_company(company_name, data.company, nq)),
             upsert_employees(es, Len(cs) + 1, data.employees))

\* upsert_company_and_employees with company_name and normalized_user_input
\* computed (app.py:277-281)
upsert_named(cs, es, data, nq, company_name) ==
    upsert_into(cs, es, data, nq, company_name,
                find_existing_company(cs, nq, data.company, company_name))

\* upsert_company_and_employees(data, raw_user_input)
upsert_company_and_employees(cs, es, data, q) ==
    upsert_named(cs, es, data, NormalizedUserInput(q), CompanyName(data.company, q))

-----------------------------------------------------------------------------
(* app.py: the search handler *)

\* needs_enrichment (app.py:477)
needs_enrichment(c) ==
    ~Truthy(c.industry) \/ ~Truthy(c.domain) \/ c.employee_size = NoSize

\* has_employees (app.py:481)
has_employees(es, cid) == EmployeesOf(es, cid) # {}

\* A reply of the AI provider to one call: the call raised, or it returned
\* text that the parser turned into `data`.
Raised == [raised |-> TRUE]
Returned(data) == [raised |-> FALSE, data |-> data]

\* what the handler has done and holds after "Load employees"
MainResult(cs, es, found, company, status, aiCalls, upserts, stopped) ==
    [companies |-> cs, employees |-> es, found |-> found, company |-> company,
     status |-> status, aiCalls |-> aiCalls, upserts |-> upserts,
     stopped |-> stopped]

\* the branch `if company:` with `or gemini_client` for `and gemini_client`
search_found_or_client(cs, es, client, found, reply, r) ==
    IF (needs_enrichment(cs[found]) \/ ~has_employees(es, found)) \/ client
    THEN IF reply.raised
         THEN MainResult(cs, es, found, found, "found_enrich_failed", 1, 0, FALSE)
         ELSE IF r.outcome = "ok"
         THEN MainResult(r.companies, r.employees, found, r.target,
                         "found_enriched", 1, 1, FALSE)
         ELSE MainResult(r.companies, r.employees, found, found,
                         "found_enrich_failed", 1, 1, FALSE)
    ELSE MainResult(cs, es, found, found, "found", 0, 0, FALSE)

\* the branch `if company:` (app.py:476-496): the company `found` is in the
\* store; r is what the upsert of the reply's data does
search_found(cs, es, client, found, reply, r) ==
    IF (needs_enrichment(cs[found]) \/ ~has_employees(es, found)) /\ client
    THEN IF reply.raised
         THEN MainResult(cs, es, found, found, "found_enrich_failed", 1, 0, FALSE)
         ELSE IF r.outcome = "ok"
         THEN MainResult(r.companies, r.employees, found, r.target,
                         "found_enriched", 1, 1, FALSE)
         ELSE MainResult(r.companies, r.employees, found, found,
                         "found_enrich_failed", 1, 1, FALSE)
    ELSE MainResult(cs, es, found, found, "found", 0, 0, FALSE)

\* the branch `else:` without the test `if not gemini_client`
search_missing_untested(cs, es, client, reply, r) ==
    IF reply.raised
    THEN MainResult(cs, es, NoId, NoId, "error", 1, 0, TRUE)
    ELSE IF r.outcome # "ok"
    THEN MainResult(r.companies, r.employees, NoId, NoId, "error", 1, 1, TRUE)
    ELSE MainResult(r.companies, r.employees, NoId, r.target, "fetched", 1, 1, FALSE)

\* the branch `else:` (app.py:497-508): no company is found
search_missing(cs, es, client, reply, r) ==
    IF ~client
    THEN MainResult(cs, es, NoId, NoId, "unavailable", 0, 0, TRUE)
    ELSE IF reply.raised
    THEN MainResult(cs, es, NoId, NoId, "error", 1, 0, TRUE)
    ELSE IF r.outcome # "ok"
    THEN MainResult(r.companies, r.employees, NoId, NoId, "error", 1, 1, TRUE)
    ELSE MainResult(r.companies, r.employees, NoId, r.target, "fetched", 1, 1, FALSE)

\* the handler from the resolver's answer `found` on
search_resolved(cs, es, client, found, reply, r) ==
    IF found # NoId
    THEN search_found(cs, es, client, found, reply, r)
    ELSE search_missing(cs, es, client, reply, r)

\* what upsert_company_and_employees(data, raw_user_input=query) does with the
\* reply of fetch_from_gemini (nothing to do when the call raised)
upsert_reply(cs, es, reply, q) ==
    IF reply.raised
    THEN [companies |-> cs, employees |-> es, outcome |-> "none",
          target |-> NoId, created |-> FALSE]
    ELSE upsert_company_and_employees(cs, es, reply.data, q)

\* The handler up to "Load employees" (app.py:472-514) for query q, with
\* `reply` the outcome of fetch_from_gemini should it be called.  status is
\* what the user is shown; company is the id of the company the handler goes
\* on with (NoId after st.stop()).
search_main(cs, es, client, q, reply) ==
    search_resolved(cs, es, client, get_company_by_name(cs, q), reply,
                    upsert_reply(cs, es, reply, q))

\* the bulk email enrichment is attempted (app.py:517)
bulk_attempted(m, client) ==
    ~m.stopped /\ client /\ ~has_employees(m.employees, m.company)

\* The bulk email enrichment (app.py:517-531) after main phase m: tmpl is the
\* reply to generate_bulk_search_templates (its data the template list),
\* bulk the reply to fetch_bulk_emails.
search_bulk_done(m, tmpl, bulk, r) ==
    IF tmpl.raised THEN [m EXCEPT !.aiCalls = m.aiCalls + 1]
    ELSE IF tmpl.data = <<>> THEN [m EXCEPT !.aiCalls = m.aiCalls + 1]
    ELSE IF bulk.raised THEN [m EXCEPT !.aiCalls = m.aiCalls + 2]
    ELSE [m EXCEPT !.companies = r.companies, !.employees = r.employees,
                   !.company = IF r.outcome = "ok" THEN r.target ELSE m.company,
                   !.aiCalls = m.aiCalls + 2, !.upserts = m.upserts + 1]

search_bulk(m, q, tmpl, bulk) ==
    search_bulk_done(m, tmpl, bulk, upsert_reply(m.companies, m.employees, bulk, q))

-----------------------------------------------------------------------------
(* backend.py *)

\* get_company_by_name_db: exact name, then normalized key, then lower-cased name
get_company_by_name_db(cs, name) ==
    IF ~Truthy(name) THEN NoId
    ELSE IF CompanyByName(cs, name) # NoId
         THEN CompanyByName(cs, name)
    ELSE IF CompanyByKey(cs, normalize_name(name)) # NoId
         THEN CompanyByKey(cs, normalize_name(name))
    ELSE CompanyByLowerName(cs, Lower(name))

\* the value the update branch leaves in employee_size (backend.py:150-154):
\* int(employee_size) in a try whose except passes
BackendUpdatedSize(old, new) ==
    IF new # NULL /\ IntParseable(new) THEN DecimalVal(Strip(new)) ELSE old

\* the employee_size of a new company (backend.py:168): str(...).strip().isdigit()
BackendCreatedSize(new) ==
    IF IntParseable(new) THEN DecimalVal(Strip(new)) ELSE NoSize

\* the update branch of backend.upsert_company_and_employees (backend.py:147-162)
backend_update_company(c, cd, company_name) ==
    Company(c.name,
            normalize_name(company_name),
            UpdatedSoft(c.industry, cd.industry),
            BackendUpdatedSize(c.employee_size, cd.employee_size),
            UpdatedSoft(c.domain, cd.domain),
            c.email)

\* the create branch (backend.py:164-173)
backend_create_company(cd, company_name) ==
    Company(company_name,
            normalize_name(company_name),
            OrElse(cd.industry, NULL),
            BackendCreatedSize(cd.employee_size),
            OrElse(cd.domain, NULL),
            NULL)

\* the UPDATE of a company is accepted: name_normalized is UNIQUE (models.py:8)
UpdateAccepted(cs, id, row) ==
    \A i \in 1..Len(cs) : i # id => cs[i].name_normalized # row.name_normalized

\* the fill of an existing employee (backend.py:190-197): no email
backend_update_employee(e, d) ==
    Employee(e.full_name,
             FilledField(e.title, d.title),
             FilledField(e.department, d.department),
             FilledField(e.seniority, d.seniority),
             FilledField(e.profile_url, d.profile_url),
             e.email,
             e.company_id)

\* the Employee(...) of backend.py:200-207: email is left to its default, None
backend_new_employee(full_name, d, cid) ==
    Employee(full_name,
             OrElse(d.title, NotFound),
             OrElse(d.department, NotFound),
             OrElse(d.seniority, NotFound),
             OrElse(d.profile_url, NotFound),
             NULL,
             cid)

\* the employee loop of backend.upsert_company_and_employees (backend.py:174-209)
RECURSIVE backend_employees_from(_, _, _, _, _)

backend_employees_entry(es, cid, list, i, seen, d, full_name, key, found) ==
    IF full_name = EMPTY \/ key \in seen
    THEN backend_employees_from(es, cid, list, i + 1, seen)
    ELSE IF found # NoId
         THEN backend_employees_from(
                  [es EXCEPT ![found] = backend_update_employee(es[found], d)],
                  cid, list, i + 1, seen \cup {key})
         ELSE backend_employees_from(
                  Append(es, backend_new_employee(full_name, d, cid)),
                  cid, list, i + 1, seen \cup {key})

backend_employees_named(es, cid, list, i, seen, full_name) ==
    backend_employees_entry(es, cid, list, i, seen, list[i], full_name,
                            normalize_name(full_name),
                            EmployeeByLowerName(es, cid, Lower(full_name)))

backend_employees_from(es, cid, list, i, seen) ==
    IF i > Len(list) THEN [ok |-> TRUE, rows |-> es]
    ELSE IF NameRaises(list[i]) THEN [ok |-> FALSE, rows |-> es]
    ELSE backend_employees_named(es, cid, list, i, seen,
                                 Strip(OrElse(list[i].full_name, EMPTY)))

\* what backend.upsert_company_and_employees leaves, given the company table
\* cs1 after the company commit, whether that commit is accepted, and the
\* result of the employee loop
backend_upsert_outcome(cs, es, existing, cs1, cid, accepted, merged) ==
    IF ~accepted
    THEN [companies |-> cs, employees |-> es, outcome |-> "company_failed",
          target |-> NoId, created |-> FALSE]
    ELSE IF ~merged.ok
    THEN [companies |-> cs1, employees |-> es, outcome |-> "employees_failed",
          target |-> cid, created |-> existing = NoId]
    ELSE [companies |-> cs1, employees |-> merged.rows, outcome |-> "ok",
          target |-> cid, created |-> existing = NoId]

\* backend.upsert_company_and_employees once `existing` is found (backend.py:147-210)
backend_upsert_into(cs, es, data, company_name, existing) ==
    IF existing # NoId
    THEN backend_upsert_outcome(cs, es, existing,
             [cs EXCEPT ![existing] =
                  backend_update_company(cs[existing], data.company, company_name)],
             existing,
             UpdateAccepted(cs, existing,
                  backend_update_company(cs[existing], data.company, company_name)),
             backend_employees_from(es, existing, data.employees, 1, {}))
    ELSE backend_upsert_outcome(cs, es, existing,
             Append(cs, backend_create_company(data.company, company_name)),
             Len(cs) + 1,
             InsertAccepted(cs, backend_create_company(data.company, company_name)),
             backend_employees_from(es, Len(cs) + 1, data.employees, 1, {}))

\* backend.upsert_company_and_employees(data)
backend_upsert(cs, es, data) ==
    backend_upsert_into(cs, es, data, OrElse(data.company.name, UnknownName),
        get_company_by_name_db(cs, OrElse(data.company.name, UnknownName)))

\* backend.fetch_from_gemini: the parsed reply, or the name-only record when
\* the provider call raised (backend.py:128-134)
backend_fetch(name, reply) ==
    IF reply.raised
    THEN [company |-> [name |-> name, industry |-> NULL, employee_size |-> NULL,
                       domain |-> NULL, email |-> NULL],
          employees |-> <<>>]
    ELSE reply.data

\* what get_company_cached_or_fetch has done and returns
BackendResult(cs, es, found, company, source, aiCalls, upserts) ==
    [companies |-> cs, employees |-> es, found |-> found, company |-> company,
     status |-> source, aiCalls |-> aiCalls, upserts |-> upserts,
     stopped |-> FALSE]

\* get_company_cached_or_fetch from the resolver's answer on; r is what the
\* upsert of the fetched record does
backend_resolved(cs, es, client, found, r) ==
    IF found # NoId
    THEN BackendResult(cs, es, found, found, "db", 0, 0)
    ELSE IF ~client
    THEN BackendResult(cs, es, NoId, NoId, "none", 0, 0)
    ELSE IF r.outcome = "ok"
    THEN BackendResult(r.companies, r.employees, NoId, r.target, "gemini", 1, 1)
    ELSE BackendResult(r.companies, r.employees, NoId, NoId, "error", 1, 1)

\* get_company_cached_or_fetch(name), with `reply` the provider's reply
\* should it be asked
get_company_cached_or_fetch(cs, es, client, name, reply) ==
    backend_resolved(cs, es, client, get_company_by_name_db(cs, name),
                     backend_upsert(cs, es, backend_fetch(name, reply)))

-----------------------------------------------------------------------------
(* Inputs: queries and parsed enrichment records *)

\* "a b", "a  b" (two spaces), "A B", "c", "d"
s_a_b == <<"a", " ", "b">>
s_a__b == <<"a", " ", " ", "b">>
s_A_B == <<"A", " ", "B">>
s_c == <<"c">>
s_d == <<"d">>

\* field values of a parsed company
Tech == <<"T", "e", "c", "h">>
Software == <<"S", "o", "f", "t">>
Size5 == <<"5">>
SizeAbout5 == <<"a", "b", "o", "u", "t", " ", "5">>
DomX == <<"x", ".", "i", "o">>
DomY == <<"y", ".", "i", "o">>
MailX == <<"i", "@", "x">>
MailY == <<"i", "@", "y">>

\* data["company"]
CompanyData(name, industry, size, domain, email) ==
    [name |-> name, industry |-> industry, employee_size |-> size,
     domain |-> domain, email |-> email]

\* the company part of a parsed record, for a parsed name: nothing known,
\* everything known, everything known with other values and a size that is
\* no integer, every field the empty string
CompanyDatasNamed(name) ==
    { CompanyData(name, NULL, NULL, NULL, NULL),
      CompanyData(name, Tech, Size5, DomX, MailX),
      CompanyData(name, Software, SizeAbout5, DomY, MailY),
      CompanyData(name, EMPTY, EMPTY, EMPTY, EMPTY) }

\* field values of a parsed employee
p_j_d == <<"j", " ", "d">>
p_J_D == <<"J", " ", "D">>
p_j__d == <<"j", " ", " ", "d">>
p_blank == <<" ">>
TitleVP == <<"V", "P">>
TitleEng == <<"E", "n", "g">>
DeptSales == <<"S", "a", "l", "e", "s">>
DeptOps == <<"O", "p", "s">>
Senior == <<"S", "r">>
Junior == <<"J", "r">>
UrlU == <<"u", "/", "j">>
UrlV == <<"v", "/", "j">>
MailJ == <<"j", "@", "x">>
MailK == <<"k", "@", "x">>

\* one element of data["employees"]
EmpData(full_name, title, department, seniority, profile_url, email) ==
    [full_name |-> full_name, title |-> title, department |-> department,
     seniority |-> seniority, profile_url |-> profile_url, email |-> email]

\* parsed employees: a person with only the title known; the same person in
\* other letter case with everything known; the same person with other values;
\* the same person with a longer whitespace run; a blank name; a name that
\* is a JSON number
e_partial == EmpData(p_j_d, TitleEng, EMPTY, NULL, EMPTY, NULL)
e_known == EmpData(p_J_D, TitleVP, DeptSales, Senior, UrlU, MailJ)
e_other == EmpData(p_j_d, NULL, DeptOps, Junior, UrlV, MailK)
e_spaced == EmpData(p_j__d, TitleEng, EMPTY, NULL, NULL, MailK)
e_blank == EmpData(p_blank, TitleEng, NULL, NULL, NULL, NULL)
e_number == EmpData(NUMBER, NULL, NULL, NULL, NULL, NULL)

\* data["employees"]: the lists of parsed employees, of at most MaxBatch entries
EmpLists ==
    { l \in { <<>>, <<e_partial>>, <<e_known>>, <<e_spaced>>,
              <<e_partial, e_known>>, <<e_known, e_spaced>>,
              <<e_spaced, e_number>>, <<e_blank, e_other>>,
              <<e_partial, e_spaced, e_known>>, <<e_known, e_blank, e_number>> } :
        Len(l) <= MaxBatch }

\* a parsed record
Data(cd, list) == [company |-> cd, employees |-> list]

-----------------------------------------------------------------------------
(* The record of the last call *)

NoData == Data(CompanyData(NULL, NULL, NULL, NULL, NULL), <<>>)

\* no company row
NoCompany == Company(NULL, NULL, NULL, NoSize, NULL, NULL)

\* op: the entry point called; q, data: the query and the parsed record it
\* worked with; outcome: how it ended; target: the company it returned or
\* wrote; created: the company row is new; before: the target row before the
\* call; found: the resolver's answer; aiCalls, upserts: the provider calls
\* and upsert calls it made; raised: the provider call for the company
\* record raises (if it is made)
NoLast ==
    [op |-> "none", q |-> EMPTY, data |-> NoData, outcome |-> "none",
     target |-> NoId, created |-> FALSE, before |-> NoCompany, found |-> NoId,
     aiCalls |-> 0, upserts |-> 0, raised |-> FALSE]

\* a company with a complete record: the cache decision of app.py:477-488
Complete(cs, es, cid) ==
    /\ cid # NoId
    /\ ~needs_enrichment(cs[cid])
    /\ has_employees(es, cid)

-----------------------------------------------------------------------------
(* Actions *)

\* a call of upsert_company_and_employees has returned or raised with r
Upserted(data, q, r) ==
    /\ companies' = r.companies
    /\ employees' = r.employees
    /\ ops' = ops + 1
    /\ last' = [NoLast EXCEPT !.op = "upsert", !.q = q, !.data = data,
                              !.outcome = r.outcome, !.target = r.target,
                              !.created = r.created,
                              !.before = IF r.target # NoId /\ ~r.created
                                         THEN companies[r.target] ELSE NoCompany,
                              !.upserts = 1]
    /\ UNCHANGED <<hasClient, cachedKeys, pending, pure, request>>

\* a direct call upsert_company_and_employees(data, raw_user_input=q)
Upsert(data, q) ==
    /\ ops < MaxOps
    /\ Upserted(data, q, upsert_company_and_employees(companies, employees, data, q))

\* a run of an entry point (op) for query q has ended with res
Handled(op, q, reply, res) ==
    /\ companies' = res.companies
    /\ employees' = res.employees
    /\ ops' = ops + 1
    /\ last' = [NoLast EXCEPT !.op = op, !.q = q,
                              !.data = IF reply.raised THEN NoData ELSE reply.data,
                              !.outcome = res.status, !.target = res.company,
                              !.found = res.found, !.aiCalls = res.aiCalls,
                              !.upserts = res.upserts, !.raised = reply.raised]
    /\ cachedKeys' = IF Complete(res.companies, res.employees, res.company)
                     THEN cachedKeys \cup {normalize_name(q)}
                     ELSE cachedKeys
    /\ UNCHANGED <<hasClient, pending, pure, request>>

\* a run of the search handler has ended with res
Searched(q, reply, res) == Handled("search", q, reply, res)

\* one call backend.get_company_cached_or_fetch(name)
BackendLookup(name, reply) ==
    /\ ops < MaxOps
    /\ Handled("backend", name, reply,
               get_company_cached_or_fetch(companies, employees, hasClient, name, reply))

\* the handler ends after main phase m, without bulk email enrichment
SearchEnds(q, reply, m) ==
    /\ ~bulk_attempted(m, hasClient)
    /\ Searched(q, reply, m)

\* the handler goes on to the bulk email enrichment after main phase m
SearchGoesOn(q, reply, tmpl, bulk, m) ==
    /\ bulk_attempted(m, hasClient)
    /\ Searched(q, reply, search_bulk(m, q, tmpl, bulk))

\* one run of the search handler (app.py:472-531) that does not reach the
\* bulk email enrichment
Search(q, reply) ==
    /\ ops < MaxOps
    /\ Truthy(q)
    /\ SearchEnds(q, reply, search_main(companies, employees, hasClient, q, reply))

\* one run of the search handler that goes on to the bulk email enrichment
\* (app.py:517-531): tmpl is the reply to generate_bulk_search_templates,
\* bulk the reply to fetch_bulk_emails
SearchBulk(q, reply, tmpl, bulk) ==
    /\ ops < MaxOps
    /\ Truthy(q)
    /\ SearchGoesOn(q, reply, tmpl, bulk,
                    search_main(companies, employees, hasClient, q, reply))

\* the process is started again with or without GEMINI_API_KEY (app.py:65)
Restart ==
    /\ last.op # "none"
    /\ hasClient' = ~hasClient
    /\ last' = NoLast
    /\ UNCHANGED <<companies, employees, ops, cachedKeys, pending, pure, request>>

\* the sessions (threads of the server) that may run an upsert at a time
Sessions == {1, 2}

\* a session that runs no upsert
Idle == [stage |-> "idle", q |-> EMPTY, data |-> NoData, existing |-> NoId,
         row |-> NoCompany]

\* no value returned yet
NoValue == <<"no value">>

\* no entry point is running; otherwise pc is the statement it is at, entry
\* the entry point, q its query, found the resolver's answer, data the
\* parsed record it holds, bulk whether it is in the bulk email enrichment,
\* sessions the number of store sessions it holds open, calls the number of
\* provider calls it waits for
NoRequest ==
    [pc |-> "idle", entry |-> "none", q |-> EMPTY, found |-> NoId, data |-> NoData,
     bulk |-> FALSE, sessions |-> 0, calls |-> 0]

Init ==
    /\ companies = <<>>
    /\ employees = <<>>
    /\ hasClient = TRUE
    /\ ops = 0
    /\ last = NoLast
    /\ cachedKeys = {}
    /\ pending = [s \in Sessions |-> Idle]
    /\ request = NoRequest
    /\ text = EMPTY
    /\ value = NoValue

\* queries and parsed names of the company-merge specification
Queries == {EMPTY, s_a__b, s_A_B, s_c}
ParsedNames == {NULL, s_a_b, s_d}

\* the parsed records without employees
CompanyRecords ==
    UNION { { Data(cd, <<>>) : cd \in CompanyDatasNamed(n) } : n \in ParsedNames }

UpsertCompany ==
    \E q \in Queries, data \in CompanyRecords : Upsert(data, q)

Next == UpsertCompany

\* direct upserts of parsed company records
Spec == Init /\ [][Next]_vars

\* queries and company parts of the employee-merge specification
EmpCalls ==
    { <<s_c, CompanyData(NULL, NULL, NULL, NULL, NULL)>>,
      <<s_c, CompanyData(s_d, Tech, Size5, DomX, MailX)>>,
      <<s_a_b, CompanyData(s_d, Software, Size5, DomX, MailX)>> }

\* the calls of the employee-merge specification: a query and a parsed record
EmpUpserts == { <<c[1], Data(c[2], l)>> : c \in EmpCalls, l \in EmpLists }

UpsertEmployees ==
    \E u \in EmpUpserts : Upsert(u[2], u[1])

NextEmp == UpsertEmployees

\* direct upserts of parsed records with employees
SpecEmp == Init /\ [][NextEmp]_vars

\* queries and provider replies of the search specification
SearchQueries == {s_a__b, s_A_B, s_c}
SearchReplies ==
    { Raised,
      Returned(Data(CompanyData(NULL, NULL, NULL, NULL, NULL), <<>>)),
      Returned(Data(CompanyData(s_d, Tech, Size5, DomX, MailX), <<e_known>>)),
      Returned(Data(CompanyData(s_a_b, Tech, Size5, DomX, NULL), <<>>)),
      Returned(Data(CompanyData(s_a_b, Software, SizeAbout5, DomY, MailY), <<e_partial>>)),
      Returned(Data(CompanyData(NULL, Tech, Size5, DomX, MailX), <<e_number>>)) }
NoTemplates == { Raised, Returned(<<>>) }
Templates == Returned(<<s_c>>)
BulkReplies ==
    { Raised,
      Returned(Data(CompanyData(NULL, NULL, NULL, NULL, NULL), <<>>)),
      Returned(Data(CompanyData(s_a_b, NULL, NULL, DomY, NULL), <<e_other>>)) }

SearchAny == \E q \in SearchQueries, reply \in SearchReplies : Search(q, reply)

SearchNoTemplates ==
    \E q \in SearchQueries, reply \in SearchReplies, tmpl \in NoTemplates :
        SearchBulk(q, reply, tmpl, Raised)

SearchBulkAny ==
    \E q \in SearchQueries, reply \in SearchReplies, bulk \in BulkReplies :
        SearchBulk(q, reply, Templates, bulk)

NextSearch == SearchAny \/ SearchNoTemplates \/ SearchBulkAny \/ Restart

\* runs of the search handler of app.py
SpecSearch == Init /\ [][NextSearch]_vars

\* names and provider replies of the backend specification
BackendNames == {s_a__b, s_A_B, s_c}
BackendReplies ==
    { Raised,
      Returned(Data(CompanyData(s_a_b, Tech, Size5, DomX, NULL), <<e_known>>)),
      Returned(Data(CompanyData(NULL, Software, SizeAbout5, NULL, NULL), <<e_partial>>)),
      Returned(Data(CompanyData(s_d, Tech, EMPTY, DomY, NULL), <<e_spaced, e_number>>)) }

BackendLookupAny ==
    \E name \in BackendNames, reply \in BackendReplies : BackendLookup(name, reply)

NextBackend == BackendLookupAny \/ Restart

\* calls of backend.get_company_cached_or_fetch
SpecBackend == Init /\ [][NextBackend]_vars

-----------------------------------------------------------------------------
(* Interleaved calls of upsert_company_and_employees *)

\* one attribute of the row as _update_company's commit leaves it: the UPDATE
\* writes the attributes the call has changed on the object it loaded
\* (app.py:327-339)
Flushed(current, loaded, ours) == IF ours # loaded THEN ours ELSE current

\* the row after the commit of _update_company, for the object `loaded` by
\* _find_existing_company and the row `current` of the table
flushed_company(current, loaded, ours) ==
    Company(Flushed(current.name, loaded.name, ours.name),
            Flushed(current.name_normalized, loaded.name_normalized, ours.name_normalized),
            Flushed(current.industry, loaded.industry, ours.industry),
            Flushed(current.employee_size, loaded.employee_size, ours.employee_size),
            Flushed(current.domain, loaded.domain, ours.domain),
            Flushed(current.email, loaded.email, ours.email))

\* the update path (app.py:283-286, 292-294) with the row to commit computed;
\* outcome "update_failed": the commit of _update_company raised
resumed_update(cs, es, data, existing, row) ==
    IF UpdateAccepted(cs, existing, row)
    THEN upsert_outcome(cs, es, existing, [cs EXCEPT ![existing] = row],
                        existing, TRUE,
                        upsert_employees(es, existing, data.employees))
    ELSE [companies |-> cs, employees |-> es, outcome |-> "update_failed",
          target |-> NoId, created |-> FALSE]

\* upsert_company_and_employees from app.py:283 on, in a session that has
\* run _find_existing_company before: `existing` is what it found, `loaded`
\* the row as it was then, cs and es the tables now
resumed_into(cs, es, data, nq, company_name, existing, loaded) ==
    IF existing # NoId
    THEN resumed_update(cs, es, data, existing,
             flushed_company(cs[existing], loaded,
                             update_company(loaded, data.company, nq)))
    ELSE upsert_into(cs, es, data, nq, company_name, NoId)

resumed_upsert(cs, es, p) ==
    resumed_into(cs, es, p.data, NormalizedUserInput(p.q),
                 CompanyName(p.data.company, p.q), p.existing, p.row)

\* the session has run _find_existing_company and found `existing`
Resolved(data, q, existing) ==
    [stage |-> "resolved", q |-> q, data |-> data, existing |-> existing,
     row |-> IF existing = NoId THEN NoCompany ELSE companies[existing]]

\* the calls begun and not yet ended
InFlight == { s \in Sessions : pending[s].stage # "idle" }

\* session s enters upsert_company_and_employees(data, q) and runs
\* _find_existing_company (app.py:272-281)
UpsertBegins(s, data, q) ==
    /\ ops + Cardinality(InFlight) < MaxOps
    /\ pending[s].stage = "idle"
    /\ pending' = [pending EXCEPT ![s] =
                      Resolved(data, q,
                               find_existing_company(companies, NormalizedUserInput(q),
                                                     data.company,
                                                     CompanyName(data.company, q)))]
    /\ UNCHANGED <<companies, employees, hasClient, ops, last, cachedKeys, pure, request>>

\* the call of session s has returned or raised with r
UpsertEnded(s, r) ==
    /\ companies' = r.companies
    /\ employees' = r.employees
    /\ ops' = ops + 1
    /\ last' = [NoLast EXCEPT !.op = "upsert", !.q = pending[s].q,
                              !.data = pending[s].data,
                              !.outcome = r.outcome, !.target = r.target,
                              !.created = r.created,
                              !.before = IF r.target # NoId /\ ~r.created
                                         THEN companies[r.target] ELSE NoCompany,
                              !.found = pending[s].existing,
                              !.upserts = 1]
    /\ pending' = [pending EXCEPT ![s] = Idle]
    /\ UNCHANGED <<hasClient, cachedKeys, pure, request>>

\* session s runs the rest of its call: _update_company or _create_company,
\* then _upsert_employees (app.py:283-294)
UpsertEnds(s) ==
    /\ pending[s].stage = "resolved"
    /\ UpsertEnded(s, resumed_upsert(companies, employees, pending[s]))

\* queries and parsed records of the interleaved calls
RaceCalls ==
    { <<q, d>> : q \in {s_c, s_A_B},
                 d \in { Data(CompanyData(s_d, Tech, Size5, DomX, MailX), <<e_known>>),
                         Data(CompanyData(NULL, Software, SizeAbout5, DomY, MailY), <<e_partial>>),
                         Data(CompanyData(s_d, NULL, NULL, NULL, NULL), <<>>) } }

UpsertBeginsAny == \E s \in Sessions, c \in RaceCalls : UpsertBegins(s, c[2], c[1])

UpsertEndsAny == \E s \in Sessions : UpsertEnds(s)

NextRace == UpsertBeginsAny \/ UpsertEndsAny

\* upserts of two sessions, interleaved between the lookup of the existing
\* company and the writes
SpecRace == Init /\ [][NextRace]_vars

-----------------------------------------------------------------------------
(* The entry points statement by statement: store sessions and provider calls *)

\* `with Session(engine) as session:` is entered, at statement pc
Inside(r, pc) == [r EXCEPT !.pc = pc, !.sessions = r.sessions + 1]

\* the with block is left and its session is not closed
StillInside(r) == r

\* the with block is left: the session is closed
Outside(r) == [r EXCEPT !.sessions = r.sessions - 1]

\* gemini_client.models.generate_content(...) is called, at statement pc
Calling(r, pc) == [r EXCEPT !.pc = pc, !.calls = r.calls + 1]

\* the provider call has returned or raised
Answered(r) == [r EXCEPT !.calls = r.calls - 1]

\* the entry point returns or stops: what it holds open stays open
Ended(r) == [NoRequest EXCEPT !.sessions = r.sessions, !.calls = r.calls]

\* the request moves to r2; the store is as it was
Moves(r2) ==
    /\ request' = r2
    /\ UNCHANGED <<companies, employees, hasClient, ops, last, cachedKeys, pending, pure>>

\* the user submits query q: the handler opens the resolver's session
\* (app.py:472-473)
Submit(q) ==
    /\ request.pc = "idle"
    /\ ops < MaxOps
    /\ Truthy(q)
    /\ request' = Inside([request EXCEPT !.entry = "app", !.q = q], "resolve")
    /\ ops' = ops + 1
    /\ UNCHANGED <<companies, employees, hasClient, last, cachedKeys, pending, pure>>

\* after the resolver's session (app.py:474-476, 497-501), r the request
\* outside of it
resolved_then(r, found, client) ==
    IF found # NoId THEN Inside([r EXCEPT !.found = found], "check")
    ELSE IF ~client THEN Ended(r)
    ELSE Calling(r, "fetch")

\* get_company_by_name has answered and its session ends (app.py:473-474)
ResolveDone ==
    /\ request.pc = "resolve"
    /\ Moves(resolved_then(Outside(request),
                           get_company_by_name(companies, request.q), hasClient))

\* after the session of has_employees (app.py:477-491, 511), r the request
\* outside of it
checked_then(r, enrich) ==
    IF enrich THEN Calling(r, "fetch") ELSE Inside(r, "load")

\* has_employees is known and its session ends (app.py:480-488)
CheckDone ==
    /\ request.pc = "check"
    /\ Moves(checked_then(Outside(request),
                          /\ \/ needs_enrichment(companies[request.found])
                             \/ ~has_employees(employees, request.found)
                          /\ hasClient))

\* after fetch_from_gemini or fetch_bulk_emails (app.py:490-495, 501-507,
\* 522-523, 529-531), r the request with the call answered
fetched_then(r, reply) ==
    IF ~reply.raised THEN Inside([r EXCEPT !.data = reply.data], "upsert")
    ELSE IF r.bulk \/ r.found = NoId THEN Ended(r)
    ELSE Inside(r, "load")

\* fetch_from_gemini returns or raises
FetchDone(reply) ==
    /\ request.pc = "fetch"
    /\ Moves(fetched_then(Answered(request), reply))

\* after upsert_company_and_employees (app.py:492-495, 502-511, 523-531), r
\* the request outside of the upsert's session, u what the upsert did
upserted_then(r, u) ==
    IF u.outcome = "ok" THEN Inside([r EXCEPT !.found = u.target], "load")
    ELSE IF r.bulk \/ r.found = NoId THEN Ended(r)
    ELSE Inside(r, "load")

\* the request has left upsert_company_and_employees with u
Upserts(r, u) ==
    /\ request' = r
    /\ companies' = u.companies
    /\ employees' = u.employees
    /\ UNCHANGED <<hasClient, ops, last, cachedKeys, pending, pure>>

\* upsert_company_and_employees ends: its session ends (app.py:277-294)
UpsertDone ==
    /\ request.pc = "upsert"
    /\ Upserts(upserted_then(Outside(request),
                             upsert_company_and_employees(companies, employees,
                                                          request.data, request.q)),
               upsert_company_and_employees(companies, employees,
                                            request.data, request.q))

\* after "Load employees" (app.py:511-519, 524-528), r the request outside
\* of its session
loaded_then(r, none, client) ==
    IF ~r.bulk /\ none /\ client THEN Calling([r EXCEPT !.bulk = TRUE], "templates")
    ELSE Ended(r)

\* the employees are loaded and the session ends
LoadDone ==
    /\ request.pc = "load"
    /\ Moves(loaded_then(Outside(request),
                         ~has_employees(employees, request.found), hasClient))

\* after generate_bulk_search_templates (app.py:520-522), r the request
\* with the call answered
templated_then(r, tmpl) ==
    IF tmpl.raised THEN Ended(r)
    ELSE IF tmpl.data = <<>> THEN Ended(r)
    ELSE Calling(r, "bulk")

\* generate_bulk_search_templates returns or raises
TemplatesDone(tmpl) ==
    /\ request.pc = "templates"
    /\ Moves(templated_then(Answered(request), tmpl))

\* fetch_bulk_emails returns or raises
BulkDone(reply) ==
    /\ request.pc = "bulk"
    /\ Moves(fetched_then(Answered(request), reply))

\* backend.get_company_cached_or_fetch(name) is called: get_company_by_name_db
\* opens its session (backend.py:236, 48)
BackendSubmit(name) ==
    /\ request.pc = "idle"
    /\ ops < MaxOps
    /\ request' = Inside([request EXCEPT !.entry = "backend", !.q = name], "b_resolve")
    /\ ops' = ops + 1
    /\ UNCHANGED <<companies, employees, hasClient, last, cachedKeys, pending, pure>>

\* after get_company_by_name_db (backend.py:236-266), r the request outside
\* of its session
backend_resolved_then(r, found, client) ==
    IF found # NoId THEN Inside([r EXCEPT !.found = found], "b_load")
    ELSE IF ~client THEN Ended(r)
    ELSE Calling(r, "b_fetch")

\* get_company_by_name_db has answered and its session ends
BackendResolveDone ==
    /\ request.pc = "b_resolve"
    /\ Moves(backend_resolved_then(Outside(request),
                                   get_company_by_name_db(companies, request.q),
                                   hasClient))

\* the stored employees are read and returned (backend.py:238-261)
BackendLoadDone ==
    /\ request.pc = "b_load"
    /\ Moves(Ended(Outside(request)))

\* backend.fetch_from_gemini returns: upsert_company_and_employees opens its
\* session (backend.py:266-267, 145)
BackendFetchDone(reply) ==
    /\ request.pc = "b_fetch"
    /\ Moves(Inside([Answered(request) EXCEPT !.data = backend_fetch(request.q, reply)],
                    "b_upsert"))

\* backend.upsert_company_and_employees ends (backend.py:145-213)
BackendUpsertDone ==
    /\ request.pc = "b_upsert"
    /\ Upserts(Ended(Outside(request)),
               backend_upsert(companies, employees, request.data))

\* the process is started again with or without a client, between requests
Reconfigure ==
    /\ request.pc = "idle"
    /\ hasClient' = ~hasClient
    /\ UNCHANGED <<companies, employees, ops, last, cachedKeys, pending, pure, request>>

\* queries and provider replies of the statement-level specification
StepQueries == {s_A_B, s_c}
StepReplies ==
    { Raised,
      Returned(Data(CompanyData(NULL, NULL, NULL, NULL, NULL), <<>>)),
      Returned(Data(CompanyData(s_d, Tech, Size5, DomX, MailX), <<e_known>>)) }
StepTemplates == { Raised, Returned(<<>>), Templates }

SubmitAny == \E q \in StepQueries : Submit(q)
FetchDoneAny == \E reply \in StepReplies : FetchDone(reply)
TemplatesDoneAny == \E tmpl \in StepTemplates : TemplatesDone(tmpl)
BulkDoneAny == \E reply \in StepReplies : BulkDone(reply)
BackendSubmitAny == \E name \in StepQueries : BackendSubmit(name)
BackendFetchDoneAny == \E reply \in StepReplies : BackendFetchDone(reply)

NextSteps ==
    \/ SubmitAny \/ ResolveDone \/ CheckDone \/ FetchDoneAny \/ UpsertDone
    \/ LoadDone \/ TemplatesDoneAny \/ BulkDoneAny
    \/ BackendSubmitAny \/ BackendResolveDone \/ BackendLoadDone
    \/ BackendFetchDoneAny \/ BackendUpsertDone
    \/ Reconfigure

\* the entry points of app.py and backend.py, statement by statement
SpecSteps == Init /\ [][NextSteps]_vars

-----------------------------------------------------------------------------
(* app.py: the Response Parser *)

\* the character ` of a fence marker
TICK == "tick"

\* a text is a sequence of characters; i is a position in it
CharAt(s, i) == IF i \in 1..Len(s) THEN s[i] ELSE "end"

\* the characters at positions i..j that the text has (a Python slice)
Slice(s, i, j) == SubSeq(s, i, IF j > Len(s) THEN Len(s) ELSE j)

\* the first position from i on that holds no whitespace
RECURSIVE SkipBlank(_, _)
SkipBlank(s, i) ==
    IF i <= Len(s) /\ IsSpace(s[i]) THEN SkipBlank(s, i + 1) ELSE i

\* the first position from i on that holds c, 0 if there is none (str.find)
RECURSIVE Find(_, _, _)
Find(s, c, i) ==
    IF i > Len(s) THEN 0
    ELSE IF s[i] = c THEN i ELSE Find(s, c, i + 1)

\* the first position from i on that holds no digit
RECURSIVE DigitsEnd(_, _)
DigitsEnd(s, i) ==
    IF i <= Len(s) /\ IsDigit(s[i]) THEN DigitsEnd(s, i + 1) ELSE i

\* json.JSONDecodeError, and a value decoded up to position next - 1
Undecoded == [ok |-> FALSE, val |-> <<"None">>, next |-> 0]
Decoded(v, n) == [ok |-> TRUE, val |-> v, next |-> n]

\* the JSON decoder on the text s from position i on: strings (without
\* escapes), integers, objects (a repeated key keeps its last value) and
\* arrays; values are <<"str", chars>>, <<"int", n>>, <<"dict", [key |-> value]>>,
\* <<"list", <<values>>>>
RECURSIVE json_value(_, _)
RECURSIVE json_members(_, _, _)
RECURSIVE json_items(_, _, _)

json_string(s, i) ==
    IF CharAt(s, i) # "\"" \/ Find(s, "\"", i + 1) = 0 THEN Undecoded
    ELSE Decoded(<<"str", SubSeq(s, i + 1, Find(s, "\"", i + 1) - 1)>>,
                 Find(s, "\"", i + 1) + 1)

json_member_value(s, key, colon, acc) ==
    IF ~key.ok \/ CharAt(s, colon) # ":" THEN Undecoded
    ELSE LET v == json_value(s, SkipBlank(s, colon + 1))
             after == SkipBlank(s, v.next)
         IN  IF ~v.ok THEN Undecoded
             ELSE IF CharAt(s, after) = ","
                  THEN json_members(s, SkipBlank(s, after + 1),
                                    (key.val[2] :> v.val) @@ acc)
             ELSE IF CharAt(s, after) = "}"
                  THEN Decoded(<<"dict", (key.val[2] :> v.val) @@ acc>>, after + 1)
             ELSE Undecoded

json_members(s, i, acc) ==
    json_member_value(s, json_string(s, i),
                      SkipBlank(s, json_string(s, i).next), acc)

json_items(s, i, acc) ==
    LET v == json_value(s, i)
        after == SkipBlank(s, v.next)
    IN  IF ~v.ok THEN Undecoded
        ELSE IF CharAt(s, after) = ","
             THEN json_items(s, SkipBlank(s, after + 1), Append(acc, v.val))
        ELSE IF CharAt(s, after) = "]"
             THEN Decoded(<<"list", Append(acc, v.val)>>, after + 1)
        ELSE Undecoded

json_value(s, i) ==
    IF CharAt(s, i) = "\"" THEN json_string(s, i)
    ELSE IF IsDigit(CharAt(s, i))
         THEN Decoded(<<"int", DecimalVal(SubSeq(s, i, DigitsEnd(s, i) - 1))>>,
                      DigitsEnd(s, i))
    ELSE IF CharAt(s, i) = "{"
         THEN IF CharAt(s, SkipBlank(s, i + 1)) = "}"
              THEN Decoded(<<"dict", <<>>>>, SkipBlank(s, i + 1) + 1)
              ELSE json_members(s, SkipBlank(s, i + 1), <<>>)
    ELSE IF CharAt(s, i) = "["
         THEN IF CharAt(s, SkipBlank(s, i + 1)) = "]"
              THEN Decoded(<<"list", <<>>>>, SkipBlank(s, i + 1) + 1)
              ELSE json_items(s, SkipBlank(s, i + 1), <<>>)
    ELSE Undecoded

\* json.loads(s): one value, whitespace around it, nothing else
json_loads(s) ==
    LET v == json_value(s, SkipBlank(s, 1))
    IN  IF v.ok /\ SkipBlank(s, v.next) = Len(s) + 1 THEN v ELSE Undecoded

\* json.loads(s) returns a dict
LoadsDict(s) == json_loads(s).ok /\ json_loads(s).val[1] = "dict"

\* the length of the language tag json, js or txt (in either letter case)
\* at position i, 0 if there is none: (?:json|js|txt)? with re.IGNORECASE
TagLen(s, i) ==
    IF Lower(Slice(s, i, i + 3)) = <<"j", "s", "o", "n">> THEN 4
    ELSE IF Lower(Slice(s, i, i + 1)) = <<"j", "s">> THEN 2
    ELSE IF Lower(Slice(s, i, i + 2)) = <<"t", "x", "t">> THEN 3
    ELSE 0

\* position i opens a fence marker ```
FenceAt(s, i) == Slice(s, i, i + 2) = <<TICK, TICK, TICK>>

\* re.sub(r"```(?:json|js|txt)?\s*", "", text, flags=re.IGNORECASE), from
\* position i on
RECURSIVE RemoveFences(_, _)
RemoveFences(s, i) ==
    IF i > Len(s) THEN <<>>
    ELSE IF FenceAt(s, i)
         THEN RemoveFences(s, SkipBlank(s, i + 3 + TagLen(s, i + 3)))
    ELSE <<s[i]>> \o RemoveFences(s, i + 1)

\* the end of the text without a newline that ends it ($ of the pattern)
DollarEnd(s) == IF s # <<>> /\ s[Len(s)] = "\n" THEN Len(s) - 1 ELSE Len(s)

\* re.sub(r"\s*```$", "", text)
RemoveLastFence(s) ==
    IF DollarEnd(s) >= 3 /\ FenceAt(s, DollarEnd(s) - 2)
    THEN RStrip(SubSeq(s, 1, DollarEnd(s) - 3)) \o SubSeq(s, DollarEnd(s) + 1, Len(s))
    ELSE s

\* fence markers removed, the tag after them kept
strip_code_fences_keeping_tag(txt) ==
    IF txt = <<>> THEN txt
    ELSE Strip(SelectSeq(txt, LAMBDA c : c # TICK))

\* strip_code_fences
strip_code_fences(txt) ==
    IF txt = <<>> THEN txt
    ELSE Strip(RemoveLastFence(RemoveFences(txt, 1)))

\* the position of the "}" that brings the brace depth back to 0, counting
\* from position i on with the given depth; 0 if there is none (app.py:158-164)
RECURSIVE MatchingBrace(_, _, _)
MatchingBrace(s, i, depth) ==
    IF i > Len(s) THEN 0
    ELSE IF s[i] = "{" THEN MatchingBrace(s, i + 1, depth + 1)
    ELSE IF s[i] = "}"
         THEN IF depth = 1 THEN i ELSE MatchingBrace(s, i + 1, depth - 1)
    ELSE MatchingBrace(s, i + 1, depth)

\* re.sub(r",\s*X", "X", s) for the closing character X, from position i on
RECURSIVE DropCommasBefore(_, _, _)
DropCommasBefore(s, closer, i) ==
    IF i > Len(s) THEN <<>>
    ELSE IF s[i] = "," /\ CharAt(s, SkipBlank(s, i + 1)) = closer
         THEN DropCommasBefore(s, closer, SkipBlank(s, i + 1))
    ELSE <<s[i]>> \o DropCommasBefore(s, closer, i + 1)

\* the repair of trailing commas (app.py:172-173)
RepairCommas(s) == DropCommasBefore(DropCommasBefore(s, "}", 1), "]", 1)

\* the extraction of app.py:165-179 for the candidate text[start : i + 1]
parse_candidate(candidate) ==
    IF LoadsDict(candidate) THEN json_loads(candidate).val
    ELSE IF LoadsDict(RepairCommas(candidate))
         THEN json_loads(RepairCommas(candidate)).val
    ELSE <<"None">>

\* safe_json_parse after strip_code_fences (app.py:145-180)
parse_stripped(t) ==
    IF LoadsDict(t) THEN json_loads(t).val
    ELSE IF Find(t, "{", 1) = 0 THEN <<"None">>
    ELSE IF MatchingBrace(t, Find(t, "{", 1), 0) = 0 THEN <<"None">>
    ELSE parse_candidate(SubSeq(t, Find(t, "{", 1),
                                MatchingBrace(t, Find(t, "{", 1), 0)))

\* safe_json_parse(text): the dict, or <<"None">>
safe_json_parse(txt) ==
    IF txt = <<>> THEN <<"None">> ELSE parse_stripped(strip_code_fences(txt))

-----------------------------------------------------------------------------
(* The parser on responses that hold a JSON object *)

\* a JSON string literal
Quoted(chars) == <<"\"">> \o chars \o <<"\"">>

\* {"a":<value>}
ObjectOf(v) == <<"{">> \o Quoted(<<"a">>) \o <<":">> \o v \o <<"}">>

\* the texts of JSON objects: {}, {"a":"b"}, { "a" : 1 }, {"a":{"a":"b"}},
\* {"a":"}"}, {"a":"{"} and {"a":"```"}
JsonObjects ==
    { <<"{", "}">>,
      ObjectOf(Quoted(<<"b">>)),
      <<"{", " ">> \o Quoted(<<"a">>) \o <<" ", ":", " ", "1", " ", "}">>,
      ObjectOf(ObjectOf(Quoted(<<"b">>))),
      ObjectOf(Quoted(<<"}">>)),
      ObjectOf(Quoted(<<"{">>)),
      ObjectOf(Quoted(<<TICK, TICK, TICK>>)) }

\* objects written with trailing commas: {"a":"b",}, {"a":"b" , },
\* {"a":{"a":"b",},}, {"a":[1,],}, {"a":[1,]} and {"a":"b,]",}
CommaObjects ==
    { <<"{">> \o Quoted(<<"a">>) \o <<":">> \o Quoted(<<"b">>) \o <<",", "}">>,
      <<"{">> \o Quoted(<<"a">>) \o <<":">> \o Quoted(<<"b">>) \o <<" ", ",", " ", "}">>,
      <<"{">> \o Quoted(<<"a">>) \o <<":", "{">> \o Quoted(<<"a">>) \o <<":">>
              \o Quoted(<<"b">>) \o <<",", "}", ",", "}">>,
      <<"{">> \o Quoted(<<"a">>) \o <<":", "[", "1", ",", "]", ",", "}">>,
      ObjectOf(<<"[", "1", ",", "]">>),
      <<"{">> \o Quoted(<<"a">>) \o <<":">> \o Quoted(<<"b", ",", "]">>) \o <<",", "}">> }

\* commentary around the object of a response
NoteChars == {"x", " ", "}"}
Notes == UNION { [1..n -> NoteChars] : n \in 0..MaxNote }

\* the opening fence lines: ``` with the tag json, Json, js, txt or none
FenceOpenings ==
    { <<TICK, TICK, TICK, "\n">>,
      <<TICK, TICK, TICK, "j", "s", "o", "n", "\n">>,
      <<TICK, TICK, TICK, "J", "s", "o", "n", "\n">>,
      <<TICK, TICK, TICK, "j", "s", "\n">>,
      <<TICK, TICK, TICK, "t", "x", "t", "\n">> }

\* a response: commentary, an opening fence (or none), the text of a JSON
\* object, a closing fence (or none), commentary
Response(pre, opening, body, post) ==
    [pre |-> pre, opening |-> opening, body |-> body, post |-> post]

Responses ==
    { Response(pre, <<>>, body, post) :
        pre \in Notes, body \in JsonObjects \cup CommaObjects, post \in Notes }
    \cup { Response(<<>>, opening, body, <<>>) :
             opening \in FenceOpenings, body \in JsonObjects }

\* the raw text of a response
RawText(r) ==
    r.pre \o r.opening \o r.body
          \o (IF r.opening = <<>> THEN <<>> ELSE <<"\n", TICK, TICK, TICK>>) \o r.post

\* nothing parsed yet
Unparsed == [whole |-> NoValue, body |-> NoValue]

\* safe_json_parse is called on the raw text of the response
ParseResponse ==
    /\ value.whole = NoValue
    /\ value' = [value EXCEPT !.whole = safe_json_parse(RawText(text))]
    /\ UNCHANGED <<companies, employees, hasClient, ops, last, cachedKeys, pending, text, request>>

\* safe_json_parse is called on the text of the object alone
ParseBody ==
    /\ value.body = NoValue
    /\ value' = [value EXCEPT !.body = safe_json_parse(text.body)]
    /\ UNCHANGED <<companies, employees, hasClient, ops, last, cachedKeys, pending, text, request>>

InitParse ==
    /\ companies = <<>>
    /\ employees = <<>>
    /\ hasClient = TRUE
    /\ ops = 0
    /\ last = NoLast
    /\ cachedKeys = {}
    /\ pending = [s \in Sessions |-> Idle]
    /\ request = NoRequest
    /\ text \in Responses
    /\ value = Unparsed

NextParse == ParseResponse \/ ParseBody

\* calls of safe_json_parse on responses that hold a JSON object
SpecParse == InitParse /\ [][NextParse]_vars

-----------------------------------------------------------------------------
(* app.py: the heuristic line extractor *)

\* text.splitlines(), from position i on, line the characters of the
\* current line
RECURSIVE splitlines(_, _, _)
splitlines(s, i, line) ==
    IF i > Len(s) THEN (IF line = <<>> THEN <<>> ELSE <<line>>)
    ELSE IF s[i] = "\n" THEN <<line>> \o splitlines(s, i + 1, <<>>)
    ELSE splitlines(s, i + 1, Append(line, s[i]))

\* the position after the delimiter that the pattern
\* \s*\|\s*|\s*-\s*|\s*;\s*|\t|\s{2,} matches at position i; 0 if it
\* matches nothing there
DelimiterEnd(s, i) ==
    IF CharAt(s, SkipBlank(s, i)) \in {"|", "-", ";"}
    THEN SkipBlank(s, SkipBlank(s, i) + 1)
    ELSE IF CharAt(s, i) = "\t" THEN i + 1
    ELSE IF SkipBlank(s, i) >= i + 2 THEN SkipBlank(s, i)
    ELSE 0

\* re.split of the pattern on the line, from position i on, part the
\* characters of the current part
RECURSIVE re_split(_, _, _)
re_split(s, i, part) ==
    IF i > Len(s) THEN <<part>>
    ELSE IF DelimiterEnd(s, i) # 0
         THEN <<part>> \o re_split(s, DelimiterEnd(s, i), <<>>)
    ELSE re_split(s, i + 1, Append(part, s[i]))

\* [a-zA-Z0-9] on the characters of the lines
AlphaNum == {"J", "D", "j", "x", "c", "1"}

\* the first position from i on that holds no character of the class
RECURSIVE ClassEnd(_, _, _)
ClassEnd(s, i, class) ==
    IF i <= Len(s) /\ s[i] \in class THEN ClassEnd(s, i + 1, class) ELSE i

\* the position after the match of email_pattern that starts at position
\* i, 0 if none starts there
EmailEnd(s, i) ==
    LET at == ClassEnd(s, i, AlphaNum \cup {".", "-"})
        dot == ClassEnd(s, at + 1, AlphaNum \cup {"-"})
        end == ClassEnd(s, dot + 1, AlphaNum \cup {".", "-"})
    IN  IF at > i /\ CharAt(s, at) = "@" /\ dot > at + 1
           /\ CharAt(s, dot) = "." /\ end > dot + 1
        THEN end ELSE 0

\* email_pattern.search(line), from position i on: match.group(1), None
\* without match
RECURSIVE email_search(_, _)
email_search(s, i) ==
    IF i > Len(s) THEN NULL
    ELSE IF EmailEnd(s, i) # 0 THEN SubSeq(s, i, EmailEnd(s, i) - 1)
    ELSE email_search(s, i + 1)

\* parts[k].strip() if len(parts) > k else None
PartOrNone(parts, k) == IF Len(parts) >= k THEN Strip(parts[k]) ELSE NULL

\* the fifth part taken as the email whatever it holds
line_employee_mail_only(parts) ==
    EmpData(PartOrNone(parts, 1), PartOrNone(parts, 2), PartOrNone(parts, 3),
            PartOrNone(parts, 4), NULL, PartOrNone(parts, 5))

\* the emp of app.py:194-208 for the stripped line and its parts, but for
\* the email taken from the line
line_employee(parts) ==
    EmpData(PartOrNone(parts, 1), PartOrNone(parts, 2), PartOrNone(parts, 3),
            PartOrNone(parts, 4),
            IF Len(parts) >= 5 /\ Find(Strip(parts[5]), "@", 1) = 0
            THEN Strip(parts[5]) ELSE NULL,
            IF Len(parts) >= 5 /\ Find(Strip(parts[5]), "@", 1) # 0
            THEN Strip(parts[5]) ELSE NULL)

\* the employees that a stripped line gives (app.py:190-217)
line_employees(line, emp) ==
    IF line = <<>> \/ ~Truthy(emp.full_name) THEN <<>>
    ELSE IF Truthy(emp.email) THEN <<emp>>
    ELSE <<[emp EXCEPT !.email = email_search(line, 1)]>>

\* the employees that the lines from the k-th on give
RECURSIVE employees_of_lines(_, _)
employees_of_lines(lines, k) ==
    IF k > Len(lines) THEN <<>>
    ELSE line_employees(Strip(lines[k]),
                        line_employee(re_split(Strip(lines[k]), 1, <<>>)))
         \o employees_of_lines(lines, k + 1)

\* parse_employee_list_from_text(text)
parse_employee_list_from_text(txt) ==
    employees_of_lines(splitlines(txt, 1, <<>>), 1)

-----------------------------------------------------------------------------
(* The extractor on lines of delimited fields *)

\* the fields of a line: a name, nothing, an address
FieldTexts == { <<"J", " ", "D">>, <<>>, <<"j", "@", "x", ".", "c">> }

\* the delimiters between the fields; the ones of whitespace alone stand
\* between fields that are not empty
SymbolDelimiters == { <<"|">>, <<" ", "|", " ">>, <<"-">>, <<";">> }
BlankDelimiters == { <<"\t">>, <<" ", " ">> }

\* a line of fields and the delimiter between them
Line(fields, sep) == [fields |-> fields, sep |-> sep]

Lines ==
    UNION { { Line(f, sep) : f \in [1..n -> FieldTexts], sep \in SymbolDelimiters }
              \cup { Line(f, sep) : f \in [1..n -> FieldTexts \ {<<>>}],
                                      sep \in BlankDelimiters }
            : n \in 1..MaxFields }

\* the lines that follow the first one: a blank line, a padded line of three
\* fields
NextLines ==
    { Line(<<<<" ">>>>, <<"|">>),
      Line(<<<<" ", "D">>, <<"x", " ">>, <<"1">>>>, <<";">>) }

\* the texts of at most two lines
LineTexts == { <<l>> : l \in Lines } \cup (Lines \X NextLines)

\* the fields joined by the delimiter, from the k-th field on
RECURSIVE Joined(_, _, _)
Joined(fields, sep, k) ==
    IF k > Len(fields) THEN <<>>
    ELSE IF k = Len(fields) THEN fields[k]
    ELSE fields[k] \o sep \o Joined(fields, sep, k + 1)

\* the raw text of the lines from the k-th on
RECURSIVE RawLines(_, _)
RawLines(lines, k) ==
    IF k > Len(lines) THEN <<>>
    ELSE Joined(lines[k].fields, lines[k].sep, 1)
         \o (IF k < Len(lines) THEN <<"\n">> ELSE <<>>) \o RawLines(lines, k + 1)

\* parse_employee_list_from_text is called on the raw text of the lines
Extract ==
    /\ value = NoValue
    /\ value' = <<"employees", parse_employee_list_from_text(RawLines(text, 1))>>
    /\ UNCHANGED <<companies, employees, hasClient, ops, last, cachedKeys, pending, text, request>>

InitLines ==
    /\ companies = <<>>
    /\ employees = <<>>
    /\ hasClient = TRUE
    /\ ops = 0
    /\ last = NoLast
    /\ cachedKeys = {}
    /\ pending = [s \in Sessions |-> Idle]
    /\ request = NoRequest
    /\ text \in LineTexts
    /\ value = NoValue

NextLinesStep == Extract

\* calls of parse_employee_list_from_text on lines of delimited fields
SpecLines == InitLines /\ [][NextLinesStep]_vars

-----------------------------------------------------------------------------
(* normalize_name on the spellings of a name *)

\* the characters of the names: a lower-case letter, an upper-case letter,
\* whitespace
NameChars == {"a", "B", " "}

\* the names handed to normalize_name at first: every string of up to
\* MaxName characters, and None
NameTexts == UNION { [1..n -> NameChars] : n \in 0..MaxName } \cup {NULL}

\* the letter in the other case
SwapCase(c) ==
    CASE c = "a" -> "A"
      [] c = "A" -> "a"
      [] c = "b" -> "B"
      [] c = "B" -> "b"
      [] OTHER -> c

\* s with a space put after position i
WithSpaceAfter(s, i) == SubSeq(s, 1, i) \o <<" ">> \o SubSeq(s, i + 1, Len(s))

\* s without position i
WithoutChar(s, i) == SubSeq(s, 1, i - 1) \o SubSeq(s, i + 1, Len(s))

\* a space after position i is leading, trailing or lengthens a whitespace run
LengthensRun(s, i) ==
    IF i = 0 \/ i = Len(s) THEN TRUE
    ELSE IF IsSpace(s[i]) THEN TRUE
    ELSE IsSpace(s[i + 1])

\* position i holds a leading or trailing space or one of a longer run
ShortensRun(s, i) ==
    IF ~IsSpace(s[i]) THEN FALSE
    ELSE IF i = 1 \/ i = Len(s) THEN TRUE
    ELSE IF IsSpace(s[i - 1]) THEN TRUE
    ELSE IsSpace(s[i + 1])

\* the name is spelled with another letter case at position i
Recase(i) ==
    /\ text # NULL
    /\ i \in 1..Len(text)
    /\ SwapCase(text[i]) # text[i]
    /\ text' = [text EXCEPT ![i] = SwapCase(text[i])]
    /\ UNCHANGED <<companies, employees, hasClient, ops, last, cachedKeys, pending, value, request>>

\* the name is spelled with one more space in or around it
Widen(i) ==
    /\ text # NULL
    /\ Len(text) <= MaxName
    /\ i \in 0..Len(text)
    /\ LengthensRun(text, i)
    /\ text' = WithSpaceAfter(text, i)
    /\ UNCHANGED <<companies, employees, hasClient, ops, last, cachedKeys, pending, value, request>>

\* the name is spelled with one space less in or around it
Narrow(i) ==
    /\ text # NULL
    /\ i \in 1..Len(text)
    /\ ShortensRun(text, i)
    /\ text' = WithoutChar(text, i)
    /\ UNCHANGED <<companies, employees, hasClient, ops, last, cachedKeys, pending, value, request>>

\* normalize_name(text) is called
Normalize ==
    /\ value' = normalize_name(text)
    /\ UNCHANGED <<companies, employees, hasClient, ops, last, cachedKeys, pending, text, request>>

\* normalize_name is called on the key it has returned
Renormalize ==
    /\ value # NoValue
    /\ text' = value
    /\ value' = normalize_name(value)
    /\ UNCHANGED <<companies, employees, hasClient, ops, last, cachedKeys, pending, request>>

InitNorm ==
    /\ companies = <<>>
    /\ employees = <<>>
    /\ hasClient = TRUE
    /\ ops = 0
    /\ last = NoLast
    /\ cachedKeys = {}
    /\ pending = [s \in Sessions |-> Idle]
    /\ request = NoRequest
    /\ text \in NameTexts
    /\ value = NoValue

NextNorm ==
    \/ \E i \in 1..(MaxName + 1) : Recase(i)
    \/ \E i \in 0..MaxName : Widen(i)
    \/ \E i \in 1..(MaxName + 1) : Narrow(i)
    \/ Normalize
    \/ Renormalize

\* calls of normalize_name on a name and on its respellings
SpecNorm == InitNorm /\ [][NextNorm]_vars

-----------------------------------------------------------------------------
(* Properties *)

\* the store holds what the data model of the spec calls a complete record
\* for company cid: industry, domain and employee_size set, and an employee
CompleteRecord(cs, es, cid) ==
    /\ Truthy(cs[cid].industry)
    /\ Truthy(cs[cid].domain)
    /\ cs[cid].employee_size # NoSize
    /\ \E i \in 1..Len(es) : es[i].company_id = cid

\* the persons of a parsed employee list: the normalized names of its entries
PersonsOf(list) ==
    { normalize_name(Strip(list[k].full_name)) :
        k \in { i \in 1..Len(list) : /\ list[i].full_name \notin {NULL, NUMBER}
                                    /\ Strip(list[i].full_name) # EMPTY } }

\* the rows of company cid that stand for person p
RowsOfPerson(es, cid, p) ==
    { i \in 1..Len(es) : es[i].company_id = cid /\ normalize_name(es[i].full_name) = p }

\* this step is a second upsert with the record and query of the upsert before it
RepeatedUpsert ==
    /\ last.op = "upsert"
    /\ last'.op = "upsert"
    /\ last'.q = last.q
    /\ last'.data = last.data

\* A repeated upsert changes no row and adds none (the part of C1 that the
\* code keeps, whatever the outcome of the two calls).
RepeatIsNoOp ==
    [][RepeatedUpsert => companies' = companies /\ employees' = employees]_vars

\* C1: calling upsert twice in succession with the same record R and query q
\* leaves the store after the second call equal to the store after the
\* first, with exactly one company row for R and exactly one employee row
\* per distinct person of R.
C1_UpsertIdempotent ==
    [][(RepeatedUpsert /\ last.outcome = "ok") =>
          /\ companies' = companies
          /\ employees' = employees
          /\ Cardinality({ i \in 1..Len(companies') :
                             normalize_name(companies'[i].name_normalized)
                               = normalize_name(last'.q) }) = 1
          /\ \A p \in PersonsOf(last'.data.employees) :
                 Cardinality(RowsOfPerson(employees', last'.target, p)) = 1]_vars

\* C2: no two employee rows of one company have the same normalized
\* full_name, in every reachable store.
C2_EmployeeUnique ==
    \A i, j \in 1..Len(employees) :
        (i # j /\ employees[i].company_id = employees[j].company_id)
            => normalize_name(employees[i].full_name)
                 # normalize_name(employees[j].full_name)

\* the entries of a parsed list that the employee loop matches with `row`
EntriesFor(list, row) ==
    { k \in 1..Len(list) : /\ list[k].full_name \notin {NULL, NUMBER}
                           /\ Lower(Strip(list[k].full_name)) = Lower(row.full_name) }

C4_SoftFieldOverwrite ==
    [][(last'.op = "upsert" /\ last'.target # NoId /\ ~last'.created) =>
          \A f \in SoftFields :
              /\ Truthy(last'.data.company[f])
                   => companies'[last'.target][f] = last'.data.company[f]
              /\ ~Truthy(last'.data.company[f])
                   => companies'[last'.target][f] = companies[last'.target][f]
              /\ Truthy(companies[last'.target][f])
                   => Truthy(companies'[last'.target][f])]_vars

\* C4 happens: a company stored with industry "Tech", domain "x.io" and email
\* "i@x" was merged with a record parsing "Soft", "y.io", "i@y".
C4_Witness ==
    /\ last.op = "upsert"
    /\ last.target # NoId
    /\ ~last.created
    /\ last.before.industry = Tech
    /\ last.before.domain = DomX
    /\ last.before.email = MailX
    /\ last.data.company.industry = Software
    /\ companies[last.target].industry = Software
    /\ companies[last.target].domain = DomY
    /\ companies[last.target].email = MailY

\* C5: an upsert that fails leaves the store, the company row included, as it
\* was before the call.
C5_UpsertAtomic ==
    [][(last'.op = "upsert" /\ last'.outcome # "ok") =>
          (companies' = companies /\ employees' = employees)]_vars

\* C6: when the resolver finds a company with a complete record, the search
\* handler makes no provider call of any kind and no upsert, leaves the
\* store as it is and goes on with the stored company.
C6_CacheHit ==
    [][(/\ last'.op = "search"
        /\ get_company_by_name(companies, last'.q) # NoId
        /\ CompleteRecord(companies, employees,
                          get_company_by_name(companies, last'.q))) =>
          /\ last'.aiCalls = 0
          /\ last'.upserts = 0
          /\ companies' = companies
          /\ employees' = employees
          /\ last'.target = get_company_by_name(companies, last'.q)]_vars

\* C6 happens: with a client configured, a search found a complete company
\* and made no provider call.
C6_Witness ==
    /\ last.op = "search"
    /\ hasClient
    /\ last.found # NoId
    /\ CompleteRecord(companies, employees, last.found)
    /\ last.aiCalls = 0
    /\ last.upserts = 0

\* C7: once the handling of a query has left a complete company, every later
\* query with the same normalized form makes no provider call.
C7_RepeatStaysCacheHit ==
    [][(last'.op = "search" /\ normalize_name(last'.q) \in cachedKeys) =>
          last'.aiCalls = 0]_vars

\* C8: with a client configured, a query that resolves to a company whose
\* record is not complete makes a provider call; this for the search handler
\* of app.py and for backend.get_company_cached_or_fetch.
C8_CacheIsFloor ==
    [][(/\ last'.op \in {"search", "backend"}
        /\ hasClient
        /\ last'.found # NoId
        /\ ~CompleteRecord(companies, employees, last'.found)) =>
          last'.aiCalls >= 1]_vars

\* C9: after a successful upsert with a non-empty query q the target
\* company's name_normalized is normalize(q).
C9_KeyFollowsQuery ==
    (last.op = "upsert" /\ last.outcome = "ok" /\ Truthy(last.q))
        => companies[last.target].name_normalized = normalize_name(last.q)

\* the resolver of the spec: the first hit of (1) name_normalized equal to
\* normalize(query), (2) name equal to the query, (3) lower-cased name equal
\* to the lower-cased query
PriorityResolve(cs, q) ==
    IF CompanyByKey(cs, normalize_name(q)) # NoId
    THEN CompanyByKey(cs, normalize_name(q))
    ELSE IF CompanyByName(cs, q) # NoId
         THEN CompanyByName(cs, q)
    ELSE CompanyByLowerName(cs, Lower(q))

\* C10: the resolver returns the company of the earliest matching stage of
\* (1) normalized key, (2) exact name, (3) lower-cased name, and not-found
\* only when no stage matches.
C10_ResolverPriority ==
    [][last'.op \in {"search", "backend"} =>
          last'.found = PriorityResolve(companies, last'.q)]_vars

\* session s ends a call that found no company when it looked, while the
\* company of its query has been inserted since
LosesInsertRace(s) ==
    /\ pending[s].stage = "resolved"
    /\ pending'[s].stage = "idle"
    /\ pending[s].existing = NoId
    /\ CompanyByKey(companies, NormalizedUserInput(pending[s].q)) # NoId

\* C11: when two first-time upserts for one company interleave so that both
\* find no row, the one that commits second does not fail: it is merged
\* into the row the first has inserted and ends with a successful result.
C11_InsertRaceMerges ==
    [][\A s \in Sessions :
          LosesInsertRace(s) =>
              /\ last'.outcome = "ok"
              /\ last'.target = CompanyByKey(companies, NormalizedUserInput(pending[s].q))]_vars

\* no two company rows have the same name_normalized
KeyUnique(cs) ==
    \A i, j \in 1..Len(cs) : i # j => cs[i].name_normalized # cs[j].name_normalized

\* The store keeps name_normalized unique (the part of C12 that the UNIQUE
\* constraint of models.py:8 gives, in sequences and in interleavings).
StoredKeysUnique == KeyUnique(companies)

\* C12: no two company rows have the same name_normalized, and an upsert
\* never creates a second company row for a query whose normalized key
\* already belongs to a stored company.
C12_CompanyKeyUnique ==
    [][/\ KeyUnique(companies')
       /\ (ops' = ops + 1 /\ last'.op = "upsert" /\ last'.created) =>
              \A i \in 1..Len(companies) :
                  companies[i].name_normalized # normalize_name(last'.q)]_vars

\* C13: when an upsert merges into an existing company, employee_size
\* changes only when the parsed value is non-empty and integer-parseable
\* (it is then the parsed integer); a parsed value that is no integer leaves
\* the stored size as it was and the upsert succeeds.
C13_CoercionFailureDiscarded ==
    [][(last'.op = "upsert" /\ last'.target # NoId /\ ~last'.created) =>
          /\ (Truthy(last'.data.company.employee_size)
               /\ IntParseable(last'.data.company.employee_size))
                => companies'[last'.target].employee_size
                     = DecimalVal(Strip(last'.data.company.employee_size))
          /\ ~(Truthy(last'.data.company.employee_size)
                /\ IntParseable(last'.data.company.employee_size))
                => companies'[last'.target].employee_size
                     = companies[last'.target].employee_size
          /\ (Truthy(last'.data.company.employee_size)
               /\ ~IntParseable(last'.data.company.employee_size))
                => last'.outcome = "ok"]_vars

\* entry i of a parsed list names a person
Named(list, i) ==
    /\ list[i].full_name \notin {NULL, NUMBER}
    /\ Strip(list[i].full_name) # EMPTY

\* entry i is the first of the list for its person
IsFirstOccurrence(list, i) ==
    /\ Named(list, i)
    /\ \A j \in 1..(i - 1) :
          Named(list, j) => normalize_name(Strip(list[j].full_name))
                              # normalize_name(Strip(list[i].full_name))

\* the k-th index of a set of indices
KthOf(I, k) == CHOOSE i \in I : Cardinality({ j \in I : j < i }) = k - 1

\* the entries of positions I of the list, in list order
Picked(list, I) == [k \in 1..Cardinality(I) |-> list[KthOf(I, k)]]

\* the list with every entry but the first of each person left out
FirstOccurrences(list) ==
    Picked(list, { i \in 1..Len(list) : IsFirstOccurrence(list, i) })

\* the employee rows a step has inserted or changed
Touched ==
    { i \in 1..Len(employees') : i > Len(employees) \/ employees'[i] # employees[i] }

\* C14: within one upsert call, the parsed employees with one normalized
\* full_name give at most one inserted or updated row; the first of them in
\* list order is applied, and the later ones, like the entries with an empty
\* name, are skipped without effect.
C14_BatchDedup ==
    [][(last'.op = "upsert" /\ last'.outcome = "ok") =>
          /\ \A p \in PersonsOf(last'.data.employees) :
                 Cardinality({ i \in Touched :
                                 /\ employees'[i].company_id = last'.target
                                 /\ normalize_name(employees'[i].full_name) = p }) <= 1
          /\ employees' = upsert_employees(employees, last'.target,
                                           FirstOccurrences(last'.data.employees)).rows]_vars

\* C14 happens: the batch ["j d" (title Eng), "J D" (title VP, department
\* Sales)] was upserted into a company without employees and left one row,
\* that of the first entry.
C14_Witness ==
    /\ last.op = "upsert"
    /\ last.outcome = "ok"
    /\ last.data.employees = <<e_partial, e_known>>
    /\ Cardinality(EmployeesOf(employees, last.target)) = 1
    /\ \E i \in EmployeesOf(employees, last.target) :
          /\ employees[i].full_name = p_j_d
          /\ employees[i].title = TitleEng
          /\ employees[i].department = NotFound

\* C15: whatever fails, the entry point (the search handler,
\* get_company_cached_or_fetch) gives its caller a company record together
\* with a status.
C15_AlwaysRecordAndStatus ==
    last.op \in {"search", "backend"} =>
        (last.target # NoId /\ last.outcome # "none")

\* C16: in get_company_cached_or_fetch, when the company is not stored and
\* the provider call raises, the result has source "error", no row is
\* written and the call is made once.
C16_FailedEnrichmentReported ==
    [][(last'.op = "backend" /\ last'.found = NoId /\ hasClient /\ last'.raised) =>
          /\ last'.outcome = "error"
          /\ last'.aiCalls = 1
          /\ companies' = companies
          /\ employees' = employees]_vars

\* C17: when the company is not stored and no client is configured, the
\* caller gets the outcome "unavailable" (app.py) or "none" (backend.py),
\* which is not the outcome of a failed enrichment; no provider call and no
\* upsert is made and the store is unchanged.
C17_UnavailableNoEffect ==
    [][(last'.op \in {"search", "backend"} /\ last'.found = NoId /\ ~hasClient) =>
          /\ last'.outcome = IF last'.op = "search" THEN "unavailable" ELSE "none"
          /\ last'.aiCalls = 0
          /\ last'.upserts = 0
          /\ companies' = companies
          /\ employees' = employees]_vars

\* C17 happens: without a client, a query for a company that is not in the
\* (non-empty) store ended as unavailable.
C17_Witness ==
    /\ last.op = "search"
    /\ ~hasClient
    /\ companies # <<>>
    /\ last.found = NoId
    /\ last.outcome = "unavailable"
    /\ last.aiCalls = 0

\* C18: normalize_name gives one key for the spellings of a name that
\* differ in letter case, in leading or trailing whitespace and in the
\* length of the whitespace runs; normalizing a key gives that key; empty or
\* null input gives the empty key.
C18_NormalizeStable ==
    [][/\ normalize_name(text') = normalize_name(text)
       /\ value' # NoValue =>
              /\ value' = normalize_name(text)
              /\ normalize_name(value') = value'
       /\ (value' # NoValue /\ text \in {NULL, EMPTY}) => value' = EMPTY]_vars

\* C18 happens: the name "a  B" (two spaces), respelled "A  b", has the key
\* "a b".
C18_Witness ==
    /\ text = <<"A", " ", " ", "b">>
    /\ value = <<"a", " ", "b">>

\* C19: for a raw text prefix + J + suffix, J the text of a valid JSON
\* object (nested objects and string values with brace characters
\* included), safe_json_parse returns the object J denotes.
C19_CommentaryTolerated ==
    (text.opening = <<>> /\ text.body \in JsonObjects /\ value.whole # NoValue)
        => value.whole = json_loads(text.body).val

\* C20: safe_json_parse of the text J of a valid JSON object wrapped in a
\* code fence (``` with the language tag json, js or txt, or without tag,
\* and a closing ```) returns what safe_json_parse of J returns.
C20_FenceRoundTrip ==
    (text.opening # <<>> /\ value.whole # NoValue /\ value.body # NoValue)
        => value.whole = value.body

\* C20 happens: {"a":"}"} in a ```json fence and the same object unwrapped
\* were parsed, to the object with the value "}" for "a".
C20_Witness ==
    /\ text.opening = <<TICK, TICK, TICK, "j", "s", "o", "n", "\n">>
    /\ text.body = ObjectOf(Quoted(<<"}">>))
    /\ value.whole = <<"dict", (<<"a">> :> <<"str", <<"}">>>>)>>
    /\ value.body = value.whole

\* the text s from position i on without its trailing commas: the commas
\* outside string values that only whitespace separates from a closing
\* "}" or "]"
RECURSIVE WithoutTrailingCommas(_, _, _)
WithoutTrailingCommas(s, i, inString) ==
    IF i > Len(s) THEN <<>>
    ELSE IF s[i] = "\""
         THEN <<s[i]>> \o WithoutTrailingCommas(s, i + 1, ~inString)
    ELSE IF ~inString /\ s[i] = ","
            /\ CharAt(s, SkipBlank(s, i + 1)) \in {"}", "]"}
         THEN WithoutTrailingCommas(s, i + 1, inString)
    ELSE <<s[i]>> \o WithoutTrailingCommas(s, i + 1, inString)

\* the brace-matched object substring of a raw text, <<>> if it has none
MatchedObject(raw) ==
    LET t == strip_code_fences(raw)
        start == Find(t, "{", 1)
    IN  IF start = 0 \/ MatchingBrace(t, start, 0) = 0 THEN <<>>
        ELSE SubSeq(t, start, MatchingBrace(t, start, 0))

\* the raw text's brace-matched substring is a valid JSON object but for
\* trailing commas
ValidButForCommas(raw) ==
    /\ MatchedObject(raw) # <<>>
    /\ WithoutTrailingCommas(MatchedObject(raw), 1, FALSE) # MatchedObject(raw)
    /\ LoadsDict(WithoutTrailingCommas(MatchedObject(raw), 1, FALSE))

\* C21: a response whose brace-matched object substring is valid JSON but
\* for trailing commas before a closing "}" or "]" parses to the object
\* that the substring without exactly those commas denotes.
C21_CommaRepair ==
    (value.whole # NoValue /\ ValidButForCommas(RawText(text)))
        => value.whole
             = json_loads(WithoutTrailingCommas(MatchedObject(RawText(text)), 1, FALSE)).val

\* the k-th field of a line, trimmed; None if the line has fewer fields
FieldOrNone(l, k) == IF Len(l.fields) >= k THEN Strip(l.fields[k]) ELSE NULL

\* the fifth field of the line holds an "@"
FifthIsMail(l) == Len(l.fields) >= 5 /\ Find(l.fields[5], "@", 1) # 0

\* the record that the fields of a line give by position
EmployeeOfFields(l) ==
    EmpData(FieldOrNone(l, 1), FieldOrNone(l, 2), FieldOrNone(l, 3),
            FieldOrNone(l, 4),
            IF Len(l.fields) >= 5 /\ ~FifthIsMail(l) THEN FieldOrNone(l, 5) ELSE NULL,
            IF FifthIsMail(l) THEN FieldOrNone(l, 5) ELSE NULL)

\* the lines from the k-th on whose first field is not empty
RECURSIVE NamedLines(_, _)
NamedLines(lines, k) ==
    IF k > Len(lines) THEN <<>>
    ELSE (IF Strip(lines[k].fields[1]) # <<>> THEN <<lines[k]>> ELSE <<>>)
         \o NamedLines(lines, k + 1)

\* the extracted employee is the record of the line's fields; the email
\* counts where the fifth field holds it
AsFields(emp, l) ==
    IF FifthIsMail(l) THEN emp = EmployeeOfFields(l)
    ELSE [emp EXCEPT !.email = NULL] = EmployeeOfFields(l)

\* C22: every line whose first field is not empty yields one employee, no
\* other line yields one; the first four fields are full_name, title,
\* department, seniority, a fifth field is the email if it holds an "@" and
\* the profile_url otherwise.
C22_LineExtractor ==
    value # NoValue
        => /\ Len(value[2]) = Len(NamedLines(text, 1))
           /\ \A k \in 1..Len(value[2]) :
                  AsFields(value[2][k], NamedLines(text, 1)[k])

\* C22 happens: the line "J D | J D | J D | J D | j@x.c", followed by a
\* blank line, gave exactly one employee with the four fields and the email.
C22_Witness ==
    /\ Len(text) = 2
    /\ text[1] = Line([k \in 1..5 |-> IF k = 5 THEN <<"j", "@", "x", ".", "c">>
                                                 ELSE <<"J", " ", "D">>],
                      <<" ", "|", " ">>)
    /\ text[2] = Line(<<<<" ">>>>, <<"|">>)
    /\ value # NoValue
    /\ value[2] = << EmpData(<<"J", " ", "D">>, <<"J", " ", "D">>, <<"J", " ", "D">>,
                             <<"J", " ", "D">>, NULL, <<"j", "@", "x", ".", "c">>) >>

\* the merge target by stages: (a) the row whose key is the normalized
\* query, (b) the row named as the parsed record, (c) the row named so in
\* another letter case; (b) and (c) only for a parsed record with a name
StagedTarget(cs, cd, q) ==
    IF Truthy(q) /\ CompanyByKey(cs, normalize_name(q)) # NoId
    THEN CompanyByKey(cs, normalize_name(q))
    ELSE IF ~Truthy(cd.name) THEN NoId
    ELSE IF CompanyByName(cs, cd.name) # NoId THEN CompanyByName(cs, cd.name)
    ELSE CompanyByLowerName(cs, Lower(cd.name))

\* C23: an upsert merges into the company of the earliest matching stage of
\* (a) normalized key of the query, (b) exact parsed name, (c) parsed name
\* in another letter case, and creates a company only when no stage matches;
\* without a parsed name (b) and (c) match nothing.
C23_MergeTargetPriority ==
    [][(ops' = ops + 1 /\ last'.op = "upsert" /\ last'.outcome # "create_failed") =>
          IF StagedTarget(companies, last'.data.company, last'.q) = NoId
          THEN last'.created
          ELSE /\ ~last'.created
               /\ last'.target = StagedTarget(companies, last'.data.company, last'.q)]_vars

\* the key of a created company: the normalized query, of the normalized
\* parsed name for an empty query
CreationKey(cd, q) ==
    IF Truthy(q) THEN normalize_name(q) ELSE normalize_name(cd.name)

\* C24: an upsert that finds no company to merge into creates one; its
\* name_normalized is the normalized query, or the normalized parsed name
\* when the query is empty, and is not null.
C24_CreationKeyFallback ==
    [][(/\ ops' = ops + 1
        /\ last'.op = "upsert"
        /\ last'.created \/ last'.outcome = "create_failed") =>
          /\ last'.created
          /\ companies'[last'.target].name_normalized # NULL
          /\ companies'[last'.target].name_normalized
                = CreationKey(last'.data.company, last'.q)]_vars

\* C25: every optional field (title, department, seniority, profile_url,
\* email) of every stored employee holds the unknown sentinel or a confirmed
\* value, never null and never the empty string.
C25_SentinelNeverNull ==
    \A i \in 1..Len(employees) : \A f \in EmpFields :
        employees[i][f] = NotFound \/ Truthy(employees[i][f])

\* C26: a run of the search handler for one query makes at most one call
\* to the AI provider.
C26_OneCallPerQuery == last.op = "search" => last.aiCalls <= 1

\* C27: while a provider call is in progress the request holds no open
\* store session, and a request that has ended holds none either.
C27_NoSessionAcrossCall ==
    (request.calls > 0 \/ request.pc = "idle") => request.sessions = 0

\* C27 happens: a company is stored, the handler has resolved the query to
\* it in one session, read its employees in another, and now waits for the
\* provider.
C27_Witness ==
    /\ request.pc = "fetch"
    /\ request.calls = 1
    /\ request.found # NoId
    /\ request.found <= Len(companies)

\* from the tables cs, es to cs2, es2 no row is deleted, no company but
\* the target changes, at most one company is added and it is the target,
\* no employee of another company changes, no employee changes company or
\* name, every added employee is the target's
FrameOfUpsert(cs, es, cs2, es2, target) ==
    /\ Len(cs2) \in {Len(cs), Len(cs) + 1}
    /\ Len(cs2) = Len(cs) + 1 => target = Len(cs2)
    /\ \A i \in 1..Len(cs) : i # target => cs2[i] = cs[i]
    /\ Len(es2) >= Len(es)
    /\ \A j \in 1..Len(es) :
          /\ es2[j].company_id = es[j].company_id
          /\ es2[j].full_name = es[j].full_name
          /\ es[j].company_id # target => es2[j] = es[j]
    /\ \A j \in (Len(es) + 1)..Len(es2) : es2[j].company_id = target

\* C28: a call of upsert_company_and_employees changes at most one company
\* row, the merge target or the created one, and only employees of that
\* company; no row is deleted and no stored employee changes its company
\* or its full_name.
C28_UpsertFrame ==
    [][(ops' = ops + 1 /\ last'.op = "upsert") =>
          FrameOfUpsert(companies, employees, companies', employees',
                        last'.target)]_vars

\* C28 happens: with two companies stored, an upsert has merged into one of
\* them and changed its row; that company has an employee, and the other
\* company has an employee of its own.
C28_Witness ==
    /\ last.op = "upsert"
    /\ last.outcome = "ok"
    /\ ~last.created
    /\ Len(companies) = 2
    /\ last.before # companies[last.target]
    /\ \E j \in 1..Len(employees) : employees[j].company_id = last.target
    /\ \E j \in 1..Len(employees) : employees[j].company_id # last.target

=============================================================================
